---- MODULE Spec2Model ----
(***************************************************************************)
(* Reminder scheduling and dispatch of the gratitude-app worker            *)
(* (worker/src/index.js, worker/src/scheduler.js).                         *)
(*                                                                         *)
(* The key-value store is the state.  Settings saves, push subscriptions   *)
(* and legacy-key migration steps are atomic; a Dispatch run and a Refresh *)
(* run are processes that take one step per bucket member / schedule key,  *)
(* and a Dispatch run's handling of one member is split at the push        *)
(* request, so that other handlers run between its read of the Schedule    *)
(* Record and its sentUtc write.                                           *)
(*                                                                         *)
(* Time is scaled: a day has HoursPerDay hours of MinPerHour minutes.  An  *)
(* instant is a number of minutes since the epoch; a local time "HH:MM" is *)
(* the pair <<hour, minute>>; a UTC key "dateTHH:MM" is <<date, time>>.    *)
(***************************************************************************)
EXTENDS Integers, Sequences, FiniteSets, TLC

\* ------------------------------------------------------------------ bounds
\* Hours per day and minutes per hour of the scaled calendar.
HoursPerDay == 2
MinPerHour == 2
\* Clock ticks explored after the first instant.
MaxTicks == 3
\* Settings saves and Refresh runs explored.
MaxSaves == 2
MaxRefresh == 1
\* Dispatch runs explored within one UTC minute.
MaxRunsPerMinute == 2
\* Keys returned by one page of the storage listing.
PageSize == 2
\* The delivery counters saturate here.
MaxCount == 2
\* The largest count n and the last local date a pure function is called with.
MaxN == 3
MaxDate == 3

DayLen == HoursPerDay * MinPerHour

\* The instant at which zone "D" changes its offset, which is the first instant
\* explored: two minutes before the UTC date changes.
DstInstant == 2 * DayLen - 2
FirstInstant == DstInstant
LastInstant == FirstInstant + MaxTicks

Users == {"u1", "u2"}
UserOrder == <<"u1", "u2">>

\* IANA zones: "Z" has offset 0, "E" is one minute east, "W" one minute west,
\* "D" moves from offset 0 to one minute east at DstInstant (a spring-forward
\* gap of one minute).  "bad" is a name the zone database does not know.
Zones == {"Z", "E", "W", "D"}

\* Zones whose offset changes once, at DstInstant: "D" as above; "F" falls back
\* from one minute east to 0; "N" springs forward from two minutes west to one
\* minute west; "B" falls back from one minute west to two minutes west.
DstZones == {"D", "F", "N", "B"}
BadZone == "bad"

\* ------------------------------------------------------------ scheduler.js

\* "HH:MM".split(':').map(Number), then hour * 60 + minute.
ParseTime(t) == t[1] * MinPerHour + t[2]

\* hour = floor(total / 60), minute = total % 60, both zero-padded.
FormatTime(total) == <<total \div MinPerHour, total % MinPerHour>>

\* Comparison of two zero-padded "HH:MM" strings, as Array.prototype.sort does.
StrLeq(a, b) == a[1] < b[1] \/ (a[1] = b[1] /\ a[2] <= b[2])

RECURSIVE InsertSorted(_, _)
InsertSorted(x, s) ==
    IF s = <<>> THEN <<x>>
    ELSE IF StrLeq(x, Head(s)) THEN <<x>> \o s
    ELSE <<Head(s)>> \o InsertSorted(x, Tail(s))

RECURSIVE SortTimes(_)
SortTimes(s) == IF s = <<>> THEN <<>> ELSE InsertSorted(Head(s), SortTimes(Tail(s)))

Throw == [threw |-> TRUE, times |-> <<>>]

\* generateRandomTimes drawing from [1, windowMinutes] instead of [0, windowMinutes).
generateRandomTimes_OffByOne(n, startTime, endTime, rnd) ==
    LET startMinutes == ParseTime(startTime)
        endMinutes == ParseTime(endTime)
    IN IF endMinutes <= startMinutes THEN Throw
       ELSE [threw |-> FALSE,
             times |-> SortTimes([i \in 1..n |-> FormatTime(startMinutes + rnd[i] + 1)])]

\* generateRandomTimes without the final sort.
generateRandomTimes_Unsorted(n, startTime, endTime, rnd) ==
    LET startMinutes == ParseTime(startTime)
        endMinutes == ParseTime(endTime)
    IN IF endMinutes <= startMinutes THEN Throw
       ELSE [threw |-> FALSE,
             times |-> [i \in 1..n |-> FormatTime(startMinutes + rnd[i])]]

\* generateRandomTimes throwing only when the end is before the start.
generateRandomTimes_AcceptsEqual(n, startTime, endTime, rnd) ==
    LET startMinutes == ParseTime(startTime)
        endMinutes == ParseTime(endTime)
    IN IF endMinutes < startMinutes THEN Throw
       ELSE [threw |-> FALSE,
             times |-> SortTimes([i \in 1..n |-> FormatTime(startMinutes + rnd[i])])]

\* A sorted list without its repeated entries.
RECURSIVE Dedupe(_)
Dedupe(s) ==
    IF Len(s) <= 1 THEN s
    ELSE IF s[1] = s[2] THEN Dedupe(Tail(s))
    ELSE <<Head(s)>> \o Dedupe(Tail(s))

\* generateRandomTimes keeping one reminder per minute drawn.
generateRandomTimes_DropsDuplicates(n, startTime, endTime, rnd) ==
    LET startMinutes == ParseTime(startTime)
        endMinutes == ParseTime(endTime)
    IN IF endMinutes <= startMinutes THEN Throw
       ELSE [threw |-> FALSE,
             times |-> Dedupe(SortTimes([i \in 1..n |-> FormatTime(startMinutes + rnd[i])]))]

\* generateRandomTimes(n, startTime, endTime, date); rnd[i] is the i-th value
\* of Math.floor(Math.random() * windowMinutes).
generateRandomTimes(n, startTime, endTime, rnd) ==
    LET startMinutes == ParseTime(startTime)
        endMinutes == ParseTime(endTime)
    IN IF endMinutes <= startMinutes THEN Throw
       ELSE [threw |-> FALSE,
             times |-> SortTimes([i \in 1..n |-> FormatTime(startMinutes + rnd[i])])]

\* The random sources generateRandomTimes can consume for n draws in a window.
RandomDraws(n, startTime, endTime) ==
    LET w == ParseTime(endTime) - ParseTime(startTime)
    IN IF w <= 0 THEN {<<>>} ELSE [1..n -> 0..(w - 1)]

\* The zone database: minutes to add to a UTC instant to get the wall clock.
ZoneRule(tz, instant) ==
    CASE tz = "Z" -> 0
      [] tz = "E" -> 1
      [] tz = "W" -> -1
      [] tz = "D" -> IF instant < DstInstant THEN 0 ELSE 1
      [] tz = "F" -> IF instant < DstInstant THEN 1 ELSE 0
      [] tz = "N" -> IF instant < DstInstant THEN -2 ELSE -1
      [] tz = "B" -> IF instant < DstInstant THEN -1 ELSE -2

\* Intl.DateTimeFormat(..., {timeZone}).formatToParts(instant): date and time.
LocalParts(tz, instant) ==
    LET wall == instant + ZoneRule(tz, instant)
    IN [date |-> wall \div DayLen, time |-> FormatTime(wall % DayLen)]

\* Date.UTC(year, month, day, hour, minute).
DateUTC(date, time) == date * DayLen + ParseTime(time)

\* new Date(ms).toISOString() sliced into date and time.
IsoParts(instant) == [date |-> instant \div DayLen, time |-> FormatTime(instant % DayLen)]

getTimeZoneOffsetMinutes(tz, instant) ==
    LET p == LocalParts(tz, instant)
    IN DateUTC(p.date, p.time) - instant

\* toUtcDateTimeParts adding the offset to the guess instead of subtracting it.
toUtcDateTimeParts_AddsOffset(date, time, tz) ==
    LET utcGuess == DateUTC(date, time)
        offset == getTimeZoneOffsetMinutes(tz, utcGuess)
        utcMs == utcGuess + offset
        offset2 == getTimeZoneOffsetMinutes(tz, utcMs)
    IN IsoParts(IF offset2 # offset THEN utcGuess + offset2 ELSE utcMs)

\* toUtcDateTimeParts without the recalculation of the offset.
toUtcDateTimeParts_OnePass(date, time, tz) ==
    LET utcGuess == DateUTC(date, time)
        offset == getTimeZoneOffsetMinutes(tz, utcGuess)
    IN IsoParts(utcGuess - offset)

toUtcDateTimeParts(date, time, tz) ==
    LET utcGuess == DateUTC(date, time)
        offset == getTimeZoneOffsetMinutes(tz, utcGuess)
        utcMs == utcGuess - offset
        offset2 == getTimeZoneOffsetMinutes(tz, utcMs)
    IN IsoParts(IF offset2 # offset THEN utcGuess - offset2 ELSE utcMs)

\* getDateInTimezone(timezone) at the instant `instant`.
getDateInTimezone(tz, instant) == LocalParts(tz, instant).date

\* `${utc.date}T${utc.time}` and its inverse utcKey.split('T').
UtcKey(parts) == <<parts.date, parts.time>>
KeyInstant(key) == DateUTC(key[1], key[2])

\* ------------------------------------------------------------- stored values

\* user:{id}:settings
NoSettings == [kind |-> "absent"]
Settings(enabled, n, startTime, endTime, tz) ==
    [kind |-> "set", enabled |-> enabled, remindersPerDay |-> n,
     startTime |-> startTime, endTime |-> endTime, timezone |-> tz]

\* schedule:{id}.  A field an older record shape lacks is NoTime (0 for
\* remindersPerDay); a value that is not valid JSON has kind "corrupt".
NoTime == <<>>
NoSchedule == [kind |-> "absent"]
CorruptSchedule == [kind |-> "corrupt"]
Schedule(date, tz, n, startTime, endTime, times, utcTimes, sentUtc) ==
    [kind |-> "rec", date |-> date, timezone |-> tz, remindersPerDay |-> n,
     startTime |-> startTime, endTime |-> endTime, times |-> times,
     utcTimes |-> utcTimes, sentUtc |-> sentUtc]

\* bucket:{utcDate}:{utcTime}
NoBucket == [kind |-> "absent", members |-> <<>>]
CorruptBucket == [kind |-> "corrupt", members |-> <<>>]
\* A payload that is valid JSON but not an array.
NotListBucket == [kind |-> "notlist", members |-> <<>>]
Bucket(members) == [kind |-> "list", members |-> members]

KeyInstants == (DayLen - 2) .. ((((LastInstant + 1) \div DayLen) + 1) * DayLen)
BucketKeys == {UtcKey(IsoParts(t)) : t \in KeyInstants}
DispatchKeys == {UtcKey(IsoParts(t)) : t \in FirstInstant..LastInstant}

SeqToSet(s) == {s[i] : i \in 1..Len(s)}
Includes(s, x) == \E i \in 1..Len(s) : s[i] = x

\* The window every enabled choice of settings uses, and a narrower one.
WinStart == FormatTime(DayLen - 3)
WinEnd == FormatTime(DayLen - 1)
WinMid == FormatTime(DayLen - 2)

\* The settings a client posts: user u1 changes zone, count and window and
\* turns reminders off; user u2 keeps one choice.
SettingsChoices(userId) ==
    IF userId = "u1"
    THEN {Settings(TRUE, 1, WinStart, WinEnd, "Z"),
          Settings(TRUE, 1, WinStart, WinEnd, "D"),
          Settings(TRUE, 2, WinStart, WinEnd, "Z"),
          Settings(TRUE, 1, WinMid, WinStart, "Z"),
          Settings(FALSE, 1, WinStart, WinEnd, "Z")}
    ELSE {Settings(TRUE, 1, WinStart, WinEnd, "Z")}

\* -------------------------------------------------------- minute-bucket index

\* removeUserFromBucket putting the filtered list also when it is empty.
removeUserFromBucket_KeepsEmpty(b, userId, key) ==
    IF b[key].kind # "list" THEN b
    ELSE [b EXCEPT ![key] = Bucket(SelectSeq(b[key].members, LAMBDA id : id # userId))]

\* removeUserFromBucket: the bucket store b after removing userId from key.
removeUserFromBucket(b, userId, key) ==
    IF b[key].kind # "list" THEN b
    ELSE LET filtered == SelectSeq(b[key].members, LAMBDA id : id # userId)
         IN IF Len(filtered) = 0 THEN [b EXCEPT ![key] = NoBucket]
            ELSE [b EXCEPT ![key] = Bucket(filtered)]

\* addUserToBucket without the list.includes(userId) test.
addUserToBucket_AlwaysAppends(b, userId, key) ==
    LET list == IF b[key].kind = "list" THEN b[key].members ELSE <<>>
    IN [b EXCEPT ![key] = Bucket(Append(list, userId))]

\* addUserToBucket returning when the payload is unparsable or not a list, as
\* removeUserFromBucket does.
addUserToBucket_KeepsPayload(b, userId, key) ==
    LET list == IF b[key].kind = "list" THEN b[key].members ELSE <<>>
    IN IF b[key].kind \notin {"list", "absent"} THEN b
       ELSE IF ~Includes(list, userId) THEN [b EXCEPT ![key] = Bucket(Append(list, userId))]
       ELSE b

\* addUserToBucket: an absent, unparsable or non-list payload counts as [].
addUserToBucket(b, userId, key) ==
    LET list == IF b[key].kind = "list" THEN b[key].members ELSE <<>>
    IN IF ~Includes(list, userId) THEN [b EXCEPT ![key] = Bucket(Append(list, userId))]
       ELSE b

RECURSIVE removeUserFromBuckets(_, _, _)
removeUserFromBuckets(b, userId, utcTimes) ==
    IF utcTimes = <<>> THEN b
    ELSE removeUserFromBuckets(removeUserFromBucket(b, userId, Head(utcTimes)),
                               userId, Tail(utcTimes))

\* addUserToBuckets with a loop that stops one key early.
RECURSIVE addUserToBuckets_SkipsLast(_, _, _)
addUserToBuckets_SkipsLast(b, userId, utcTimes) ==
    IF Len(utcTimes) <= 1 THEN b
    ELSE addUserToBuckets_SkipsLast(addUserToBucket(b, userId, Head(utcTimes)),
                                    userId, Tail(utcTimes))

RECURSIVE addUserToBuckets(_, _, _)
addUserToBuckets(b, userId, utcTimes) ==
    IF utcTimes = <<>> THEN b
    ELSE addUserToBuckets(addUserToBucket(b, userId, Head(utcTimes)),
                          userId, Tail(utcTimes))

\* A call of a pure function that has not been made.
NoCalc == [op |-> "none"]

\* ------------------------------------------------------------------ state

VARIABLES
    now,          \* the current UTC instant
    kvSettings,   \* user:{id}:settings
    kvSchedule,   \* schedule:{id}
    kvLegacy,     \* the legacy keys schedule:{date}:{id} present, as <<date, id>>
    kvSub,        \* user:{id}:subscription: "none", "good", "gone", "unparsable"
    kvBucket,     \* bucket:{utcDate}:{utcTime}
    dpc,          \* Dispatch run: "idle", "loop", "send", "write"
    dKey,         \* the run's utcKey
    dQueue,       \* bucket members not yet processed, the current one first
    dSched,       \* the Schedule Record the run read for the current member
    dSub,         \* the subscription the run read for the current member
    rpc,          \* Refresh run: "idle", "list", "keys"
    rQueue,       \* keys of the current page not yet processed
    rCursor,      \* the listing's cursor: position of the last key returned
    rComplete,    \* list_complete of the current page
    delivered,    \* pushes the endpoint accepted, per user and utcKey
    attempts,     \* push requests made, per user and utcKey
    optedOut,     \* users whose latest completed save had enabled = false
    budget,       \* saves, Refresh runs, Dispatch runs this minute
    stopped,      \* <<user, utcKey>>: members a Dispatch run that stopped left unprocessed
    calc,         \* a call of a pure function: its arguments and its result
    last          \* the step taken last

vars == <<now, kvSettings, kvSchedule, kvLegacy, kvSub, kvBucket, dpc, dKey, dQueue,
          dSched, dSub, rpc, rQueue, rCursor, rComplete, delivered, attempts,
          optedOut, budget, stopped, calc, last>>

kvVars == <<kvSettings, kvSchedule, kvLegacy, kvSub, kvBucket>>
dVars == <<dpc, dKey, dQueue, dSched, dSub>>
rVars == <<rpc, rQueue, rCursor, rComplete>>

\* The step taken last: the handler or trigger step, the user it was about, how
\* it ended, the run's utcKey, the user's stored Schedule Record before the
\* step, the members or keys an exception left unprocessed, and event.cron
\* when the step is the start of a trigger's run.
NoKey == <<0, <<0, 0>>>>
NoCron == ""
Step(op, user, outcome, key, prev, rest) ==
    [op |-> op, user |-> user, outcome |-> outcome, key |-> key, prev |-> prev,
     rest |-> rest, cron |-> NoCron]

Bump(n) == IF n < MaxCount THEN n + 1 ELSE n

\* ------------------------------------------------------ buildScheduleForUser

\* The stores after buildScheduleForUser(userId, settings, env, previousSchedule)
\* at instant t with random source rnd; threw when getDateInTimezone or
\* generateRandomTimes throws, which happens before any write.
buildScheduleForUser(userId, settings, previousSchedule, rnd, sched, b, t) ==
    IF settings.timezone = BadZone THEN [threw |-> TRUE, sched |-> sched, b |-> b]
    ELSE
    LET reminders == settings.remindersPerDay
        date == getDateInTimezone(settings.timezone, t)
        gen == generateRandomTimes(reminders, settings.startTime, settings.endTime, rnd)
        utcTimes == [i \in 1..Len(gen.times) |->
                        UtcKey(toUtcDateTimeParts(date, gen.times[i], settings.timezone))]
        b1 == IF previousSchedule.kind = "rec"
              THEN removeUserFromBuckets(b, userId, previousSchedule.utcTimes)
              ELSE b
        schedule == Schedule(date, settings.timezone, reminders, settings.startTime,
                             settings.endTime, gen.times, utcTimes, <<>>)
    IN IF gen.threw THEN [threw |-> TRUE, sched |-> sched, b |-> b]
       ELSE [threw |-> FALSE,
             sched |-> [sched EXCEPT ![userId] = schedule],
             b |-> addUserToBuckets(b1, userId, utcTimes)]

\* The random sources a build with these settings can consume.
BuildDraws(settings) ==
    IF settings.timezone = BadZone THEN {<<>>}
    ELSE RandomDraws(settings.remindersPerDay, settings.startTime, settings.endTime)

\* settingsFromSchedule
settingsFromSchedule(schedule) ==
    IF schedule.remindersPerDay = 0 \/ schedule.startTime = NoTime
       \/ schedule.endTime = NoTime \/ schedule.timezone = ""
    THEN NoSettings
    ELSE Settings(TRUE, schedule.remindersPerDay, schedule.startTime,
                  schedule.endTime, schedule.timezone)

\* ------------------------------------------------------------- HTTP handlers

MaxReminders == 10

\* The validation of handleSaveSettings: TRUE when the request is answered 400.
SaveRejected(settings) ==
    /\ settings.enabled
    /\ \/ settings.remindersPerDay = 0
       \/ settings.remindersPerDay < 1
       \/ settings.remindersPerDay > MaxReminders
       \/ settings.startTime = NoTime
       \/ settings.endTime = NoTime
       \/ settings.timezone = ""

\* The status of the response to a save: 400 from the validation, 500 from the
\* catch of fetch when the handler throws, 200 otherwise.
ResponseStatus(outcome) ==
    CASE outcome = "rejected" -> 400
      [] outcome = "threw" -> 500
      [] OTHER -> 200

\* handleSaveSettings with the draws rnd of the random source.
handleSaveSettings(userId, settings, rnd) ==
    LET existing == kvSchedule[userId]
        b1 == IF existing.kind = "rec"
              THEN removeUserFromBuckets(kvBucket, userId, existing.utcTimes)
              ELSE kvBucket
        built == buildScheduleForUser(userId, settings, NoSchedule, rnd,
                                      kvSchedule, b1, now)
    IN
    /\ budget.saves < MaxSaves
    /\ budget' = [budget EXCEPT !.saves = @ + 1]
    /\ IF SaveRejected(settings)
       THEN /\ last' = Step("save", userId, "rejected", NoKey, existing, <<>>)
            /\ UNCHANGED <<kvSettings, kvSchedule, kvBucket, optedOut>>
       ELSE /\ kvSettings' = [kvSettings EXCEPT ![userId] = settings]
            /\ IF ~settings.enabled
               THEN /\ kvSchedule' = [kvSchedule EXCEPT ![userId] = NoSchedule]
                    /\ kvBucket' = b1
                    /\ optedOut' = optedOut \cup {userId}
                    /\ last' = Step("save", userId, "deleted", NoKey, existing, <<>>)
               ELSE /\ optedOut' = optedOut \ {userId}
                    /\ IF built.threw
                       THEN /\ kvSchedule' = kvSchedule
                            /\ kvBucket' = b1
                            /\ last' = Step("save", userId, "threw", NoKey, existing, <<>>)
                       ELSE /\ kvSchedule' = built.sched
                            /\ kvBucket' = built.b
                            /\ last' = Step("save", userId, "built", NoKey, existing, <<>>)
    /\ UNCHANGED <<now, calc, stopped, kvLegacy, kvSub, dVars, rVars, delivered, attempts>>

SaveSettings ==
    \E userId \in Users :
      \E settings \in SettingsChoices(userId) :
        \E rnd \in BuildDraws(settings) : handleSaveSettings(userId, settings, rnd)

\* ------------------------------------------------------------ Dispatch Engine

getCurrentUtcParts == IsoParts(now)

\* The members an exception leaves unprocessed, each with the run's utcKey.
LeftBy(rest, utcKey) == {<<rest[i], utcKey>> : i \in 1..Len(rest)}

\* The run ends: by returning, or by an exception that leaves `rest` unprocessed.
DispatchEnds ==
    /\ dpc' = "idle"
    /\ dQueue' = <<>>
    /\ dSched' = NoSchedule
    /\ dSub' = "none"

\* The loop of processMinuteBucket goes on to the next member, or returns.
DispatchNext ==
    IF Len(dQueue) > 1
    THEN /\ dpc' = "loop"
         /\ dQueue' = Tail(dQueue)
         /\ dSched' = NoSchedule
         /\ dSub' = "none"
    ELSE DispatchEnds

\* event.cron of the two cron triggers.
HourlyCron == "0 * * * *"
MinuteCron == "* * * * *"
Crons == {HourlyCron, MinuteCron}

\* The step that starts a trigger's run, with the event's cron expression.
Fired(step, cron) == [step EXCEPT !.cron = cron]

\* processMinuteBucket up to the loop: the bucket of the current minute is
\* read.  cron is the expression of the event whose handler called it.
DispatchStart(cron) ==
    LET utcKey == UtcKey(getCurrentUtcParts)
        bucket == kvBucket[utcKey]
    IN
    /\ dpc = "idle"
    /\ budget.runs < MaxRunsPerMinute
    /\ budget' = [budget EXCEPT !.runs = @ + 1]
    /\ dKey' = utcKey
    /\ dSched' = NoSchedule
    /\ dSub' = "none"
    /\ IF bucket.kind # "list" \/ Len(bucket.members) = 0
       THEN /\ dpc' = "idle"
            /\ dQueue' = <<>>
            /\ last' = Fired(Step("dispatch", "-", "empty", utcKey, NoSchedule, <<>>), cron)
       ELSE /\ dpc' = "loop"
            /\ dQueue' = bucket.members
            /\ last' = Fired(Step("dispatch", "-", "start", utcKey, NoSchedule, <<>>), cron)
    /\ UNCHANGED <<now, calc, stopped, kvVars, rVars, delivered, attempts, optedOut>>

\* processUserForUtcTime without the sentUtc.includes(utcKey) return.
CheckUser_IgnoresSent(schedule, subscription, utcKey, t) ==
    IF schedule.kind # "rec" THEN "skip"
    ELSE IF ~Includes(schedule.utcTimes, utcKey) THEN "skip"
    ELSE IF schedule.timezone = "" THEN "skip"
    ELSE IF schedule.date # getDateInTimezone(schedule.timezone, t) THEN "skip"
    ELSE IF subscription = "none" THEN "skip"
    ELSE IF subscription = "unparsable" THEN "throw"
    ELSE "send"

\* processUserForUtcTime without the utcTimes.includes(utcKey) return.
CheckUser_IgnoresTimes(schedule, subscription, utcKey, t) ==
    IF schedule.kind # "rec" THEN "skip"
    ELSE IF Includes(schedule.sentUtc, utcKey) THEN "skip"
    ELSE IF schedule.timezone = "" THEN "skip"
    ELSE IF schedule.date # getDateInTimezone(schedule.timezone, t) THEN "skip"
    ELSE IF subscription = "none" THEN "skip"
    ELSE IF subscription = "unparsable" THEN "throw"
    ELSE "send"

\* processUserForUtcTime without the schedule.date !== currentDate return.
CheckUser_IgnoresDate(schedule, subscription, utcKey, t) ==
    IF schedule.kind # "rec" THEN "skip"
    ELSE IF ~Includes(schedule.utcTimes, utcKey) THEN "skip"
    ELSE IF Includes(schedule.sentUtc, utcKey) THEN "skip"
    ELSE IF schedule.timezone = "" THEN "skip"
    ELSE IF subscription = "none" THEN "skip"
    ELSE IF subscription = "unparsable" THEN "throw"
    ELSE "send"

\* processUserForUtcTime with JSON.parse(scheduleJson) outside a try block.
CheckUser_ParseThrows(schedule, subscription, utcKey, t) ==
    IF schedule.kind = "corrupt" THEN "throw"
    ELSE IF schedule.kind # "rec" THEN "skip"
    ELSE IF ~Includes(schedule.utcTimes, utcKey) THEN "skip"
    ELSE IF Includes(schedule.sentUtc, utcKey) THEN "skip"
    ELSE IF schedule.timezone = "" THEN "skip"
    ELSE IF schedule.date # getDateInTimezone(schedule.timezone, t) THEN "skip"
    ELSE IF subscription = "none" THEN "skip"
    ELSE IF subscription = "unparsable" THEN "throw"
    ELSE "send"

\* What processUserForUtcTime decides from the record and subscription it reads:
\* "skip" (a return), "throw" (JSON.parse of the subscription fails) or "send".
CheckUser(schedule, subscription, utcKey, t) ==
    IF schedule.kind # "rec" THEN "skip"
    ELSE IF ~Includes(schedule.utcTimes, utcKey) THEN "skip"
    ELSE IF Includes(schedule.sentUtc, utcKey) THEN "skip"
    ELSE IF schedule.timezone = "" THEN "skip"
    ELSE IF schedule.date # getDateInTimezone(schedule.timezone, t) THEN "skip"
    ELSE IF subscription = "none" THEN "skip"
    ELSE IF subscription = "unparsable" THEN "throw"
    ELSE "send"

\* processUserForUtcTime up to the push request.
DispatchCheck ==
    LET userId == Head(dQueue)
        schedule == kvSchedule[userId]
        verdict == CheckUser(schedule, kvSub[userId], dKey, now)
    IN
    /\ dpc = "loop"
    /\ CASE verdict = "skip" ->
              /\ DispatchNext
              /\ stopped' = stopped
              /\ last' = Step("check", userId, "skip", dKey, schedule, <<>>)
         [] verdict = "throw" ->
              /\ DispatchEnds
              /\ stopped' = stopped \cup LeftBy(Tail(dQueue), dKey)
              /\ last' = Step("check", userId, "threw", dKey, schedule, Tail(dQueue))
         [] verdict = "send" ->
              /\ dpc' = "send"
              /\ dSched' = schedule
              /\ dSub' = kvSub[userId]
              /\ dQueue' = dQueue
              /\ stopped' = stopped
              /\ last' = Step("check", userId, "due", dKey, schedule, <<>>)
    /\ UNCHANGED <<now, calc, kvVars, dKey, rVars, delivered, attempts, optedOut, budget>>

\* The response of fetch(endpoint, ...): an endpoint that accepts the push
\* answers 201, one whose subscription is gone answers 410 with a body.
Fetch(subscription) ==
    IF subscription = "good" THEN [ok |-> TRUE, status |-> 201, text |-> ""]
    ELSE [ok |-> FALSE, status |-> 410, text |-> "gone"]

\* new Error(`Push failed: ${response.status} ${text}`)
PushFailed(response) == [message |-> <<"Push failed:", response.status, response.text>>]
NoError == [message |-> <<>>]

\* sendPush: TRUE when the endpoint answers with a success status.
sendPush(subscription) == Fetch(subscription).ok

\* The push request of processUserForUtcTime.
DispatchSend ==
    LET userId == Head(dQueue)
    IN
    /\ dpc = "send"
    /\ attempts' = [attempts EXCEPT ![userId][dKey] = Bump(@)]
    /\ IF sendPush(dSub)
       THEN /\ delivered' = [delivered EXCEPT ![userId][dKey] = Bump(@)]
            /\ dpc' = "write"
            /\ UNCHANGED <<dQueue, dSched, dSub, stopped>>
            /\ last' = Step("send", userId, "sent", dKey, kvSchedule[userId], <<>>)
       ELSE /\ delivered' = delivered
            /\ DispatchEnds
            /\ stopped' = stopped \cup LeftBy(Tail(dQueue), dKey)
            /\ last' = Step("send", userId, "threw", dKey, kvSchedule[userId],
                            Tail(dQueue))
    /\ UNCHANGED <<now, calc, kvVars, dKey, rVars, optedOut, budget>>

\* ---------------------------------------------------------------- VAPID token
\* Text is a sequence of one-character strings, binary data a sequence of
\* bytes (numbers in 0..255).

\* The printable ASCII characters, from code 32 on ("grave" stands for the
\* grave accent, code 96).
Ascii ==
    <<" ", "!", "\"", "#", "$", "%", "&", "'", "(", ")", "*", "+", ",",
      "-", ".", "/", "0", "1", "2", "3", "4", "5", "6", "7", "8", "9", ":",
      ";", "<", "=", ">", "?", "@", "A", "B", "C", "D", "E", "F", "G", "H",
      "I", "J", "K", "L", "M", "N", "O", "P", "Q", "R", "S", "T", "U", "V",
      "W", "X", "Y", "Z", "[", "\\", "]", "^", "_", "grave", "a", "b", "c",
      "d", "e", "f", "g", "h", "i", "j", "k", "l", "m", "n", "o", "p", "q",
      "r", "s", "t", "u", "v", "w", "x", "y", "z", "{", "|", "}", "~">>

\* new TextEncoder().encode(text), for ASCII text.
TextEncode(text) ==
    [i \in 1..Len(text) |-> 31 + (CHOOSE c \in 1..Len(Ascii) : Ascii[c] = text[i])]

\* The base64 alphabet of btoa and atob.
Base64Chars ==
    <<"A", "B", "C", "D", "E", "F", "G", "H", "I", "J", "K", "L", "M", "N",
      "O", "P", "Q", "R", "S", "T", "U", "V", "W", "X", "Y", "Z", "a", "b",
      "c", "d", "e", "f", "g", "h", "i", "j", "k", "l", "m", "n", "o", "p",
      "q", "r", "s", "t", "u", "v", "w", "x", "y", "z", "0", "1", "2", "3",
      "4", "5", "6", "7", "8", "9", "+", "/">>

Base64Value(ch) == IF ch = "=" THEN 0 ELSE (CHOOSE c \in 1..Len(Base64Chars) : Base64Chars[c] = ch) - 1

\* btoa of the binary string holding these bytes.
RECURSIVE btoa(_)
btoa(bytes) ==
    IF bytes = <<>> THEN <<>>
    ELSE LET n == Len(bytes)
             v == bytes[1] * 65536 + (IF n >= 2 THEN bytes[2] * 256 ELSE 0)
                    + (IF n >= 3 THEN bytes[3] ELSE 0)
         IN << Base64Chars[(v \div 262144) + 1],
               Base64Chars[((v \div 4096) % 64) + 1],
               IF n >= 2 THEN Base64Chars[((v \div 64) % 64) + 1] ELSE "=",
               IF n >= 3 THEN Base64Chars[(v % 64) + 1] ELSE "=" >>
            \o btoa(SubSeq(bytes, 4, n))

\* atob: the bytes of the binary string a padded base64 text decodes to.
RECURSIVE atob(_)
atob(str) ==
    IF Len(str) < 4 THEN <<>>
    ELSE LET v == Base64Value(str[1]) * 262144 + Base64Value(str[2]) * 4096
                    + Base64Value(str[3]) * 64 + Base64Value(str[4])
             three == << v \div 65536, (v \div 256) % 256, v % 256 >>
             kept == IF str[3] = "=" THEN 1 ELSE IF str[4] = "=" THEN 2 ELSE 3
         IN SubSeq(three, 1, kept) \o atob(SubSeq(str, 5, Len(str)))

\* str.replace(/from/g, to)
Replace(str, from, to) == [i \in 1..Len(str) |-> IF str[i] = from THEN to ELSE str[i]]

\* base64UrlEncode leaving the text as btoa returns it.
base64UrlEncode_Standard(bytes) == btoa(bytes)

\* base64UrlEncode of bytes; a string is first encoded to bytes by TextEncode.
base64UrlEncode(bytes) ==
    SelectSeq(Replace(Replace(btoa(bytes), "+", "-"), "/", "_"), LAMBDA ch : ch # "=")

\* while (str.length % 4) str += '='
RECURSIVE PadToFour(_)
PadToFour(str) == IF Len(str) % 4 = 0 THEN str ELSE PadToFour(Append(str, "="))

base64UrlDecode(str) == atob(PadToFour(Replace(Replace(str, "-", "+"), "_", "/")))

\* The digits of a non-negative integer, as JSON.stringify writes a number.
RECURSIVE Decimal(_)
Decimal(n) ==
    LET digit == Ascii[17 + (n % 10)]
    IN IF n < 10 THEN <<digit>> ELSE Append(Decimal(n \div 10), digit)

\* JSON.stringify({ alg: 'ES256', typ: 'JWT' })
VapidHeader ==
    <<"{", "\"", "a", "l", "g", "\"", ":", "\"", "E", "S", "2", "5", "6",
      "\"", ",", "\"", "t", "y", "p", "\"", ":", "\"", "J", "W", "T", "\"",
      "}">>

\* JSON.stringify({ aud, exp, sub })
StringifyPayload(payload) ==
    <<"{", "\"", "a", "u", "d", "\"", ":", "\"">>
    \o payload.aud \o
    <<"\"", ",", "\"", "e", "x", "p", "\"", ":">>
    \o Decimal(payload.exp) \o
    <<",", "\"", "s", "u", "b", "\"", ":", "\"">>
    \o payload.sub \o
    <<"\"", "}">>

\* The first position from `from` on at which text holds ch, or Len(text) + 1.
IndexOf(text, ch, from) ==
    CHOOSE i \in from..(Len(text) + 1) :
        /\ i = Len(text) + 1 \/ text[i] = ch
        /\ \A j \in from..(i - 1) : text[j] # ch

\* new URL(endpoint): protocol is the scheme with its colon, host the
\* authority between "//" and the path.
ParseUrl(endpoint) ==
    LET colon == IndexOf(endpoint, ":", 1)
        slash == IndexOf(endpoint, "/", colon + 3)
    IN [protocol |-> SubSeq(endpoint, 1, colon),
        host |-> SubSeq(endpoint, colon + 3, slash - 1)]

TwelveHours == 12 * 60 * 60

\* The payload sendPush builds at Date.now() = nowMs.
VapidPayload(endpoint, nowMs, subject) ==
    LET url == ParseUrl(endpoint)
    IN [aud |-> url.protocol \o <<"/", "/">> \o url.host,
        exp |-> (nowMs \div 1000) + TwelveHours,
        sub |-> subject]

\* a.slice(from, to) of a typed array, with zero-based bounds.
Slice(a, from, to) ==
    SubSeq(a, from + 1, IF to < Len(a) THEN to ELSE Len(a))

\* raw.set(part, at): the bytes of part written into raw from index at.
SetAt(raw, part, at) ==
    [i \in 1..Len(raw) |-> IF i > at /\ i <= at + Len(part) THEN part[i - at] ELSE raw[i]]

\* derToRaw
derToRaw(der) ==
    IF Len(der) = 64 THEN der
    ELSE LET rLen == der[4]
             r == Slice(der, 4, 4 + rLen)
             offset == 4 + rLen
             sLen == der[offset + 2]
             sig == Slice(der, offset + 2, offset + 2 + sLen)
             fit(x) == IF Len(x) > 32 THEN SubSeq(x, Len(x) - 31, Len(x)) ELSE x
             least(x) == IF Len(x) < 32 THEN Len(x) ELSE 32
             zeros == [i \in 1..64 |-> 0]
         IN SetAt(SetAt(zeros, fit(r), 32 - least(r)), fit(sig), 64 - least(sig))

\* createVapidJwt, with the bytes crypto.subtle.sign returns for the token.
createVapidJwt(header, payload, signature) ==
    LET headerB64 == base64UrlEncode(TextEncode(header))
        payloadB64 == base64UrlEncode(TextEncode(StringifyPayload(payload)))
        signatureB64 == base64UrlEncode(derToRaw(signature))
    IN headerB64 \o <<".">> \o payloadB64 \o <<".">> \o signatureB64

\* The record processUserForUtcTime writes after the push: the one it read,
\* with utcKey pushed onto sentUtc.
MarkSent(schedule, utcKey) == [schedule EXCEPT !.sentUtc = Append(@, utcKey)]

\* processUserForUtcTime with sentUtc.push(utcKey) and the put moved before
\* the push request.
processUserForUtcTime_MarksFirst(schedule, subscription, utcKey, t) ==
    LET verdict == CheckUser(schedule, subscription, utcKey, t)
    IN IF verdict = "skip"
       THEN [request |-> FALSE, threw |-> FALSE, error |-> NoError, stored |-> schedule]
       ELSE IF verdict = "throw"
       THEN [request |-> FALSE, threw |-> TRUE,
             error |-> [message |-> <<"SyntaxError">>], stored |-> schedule]
       ELSE IF sendPush(subscription)
       THEN [request |-> TRUE, threw |-> FALSE, error |-> NoError,
             stored |-> MarkSent(schedule, utcKey)]
       ELSE [request |-> TRUE, threw |-> TRUE,
             error |-> PushFailed(Fetch(subscription)),
             stored |-> MarkSent(schedule, utcKey)]

\* processUserForUtcTime as one call on the record and subscription it reads at
\* instant t: whether it requested a push, whether it threw and what, and the
\* value schedule:{userId} holds when it returns.
processUserForUtcTime(schedule, subscription, utcKey, t) ==
    LET verdict == CheckUser(schedule, subscription, utcKey, t)
    IN IF verdict = "skip"
       THEN [request |-> FALSE, threw |-> FALSE, error |-> NoError, stored |-> schedule]
       ELSE IF verdict = "throw"
       THEN [request |-> FALSE, threw |-> TRUE,
             error |-> [message |-> <<"SyntaxError">>], stored |-> schedule]
       ELSE IF sendPush(subscription)
       THEN [request |-> TRUE, threw |-> FALSE, error |-> NoError,
             stored |-> MarkSent(schedule, utcKey)]
       ELSE [request |-> TRUE, threw |-> TRUE,
             error |-> PushFailed(Fetch(subscription)), stored |-> schedule]

DispatchWrite ==
    LET userId == Head(dQueue)
    IN
    /\ dpc = "write"
    /\ kvSchedule' = [kvSchedule EXCEPT ![userId] = MarkSent(dSched, dKey)]
    /\ DispatchNext
    /\ last' = Step("write", userId, "stored", dKey, kvSchedule[userId], <<>>)
    /\ UNCHANGED <<now, calc, stopped, kvSettings, kvLegacy, kvSub, kvBucket, dKey, rVars,
                   delivered, attempts, optedOut, budget>>

\* ------------------------------------------------------------- Refresh Engine

\* The keys under the prefix "schedule:" in the order the listing returns them:
\* the legacy keys schedule:{date}:{id} sort before the keys schedule:{id}.
LegacyKey(date, userId) == [legacy |-> TRUE, date |-> date, user |-> userId]
CurrentKey(userId) == [legacy |-> FALSE, date |-> 0, user |-> userId]
AllScheduleKeys ==
    [i \in 1..Len(UserOrder) |-> LegacyKey(1, UserOrder[i])]
    \o [i \in 1..Len(UserOrder) |-> CurrentKey(UserOrder[i])]

KeyStored(k) ==
    IF k.legacy THEN <<k.date, k.user>> \in kvLegacy
    ELSE kvSchedule[k.user].kind # "absent"

RECURSIVE IndicesToKeys(_)
IndicesToKeys(idx) ==
    IF idx = {} THEN <<>>
    ELSE LET i == CHOOSE j \in idx : \A k \in idx : j <= k
         IN <<AllScheduleKeys[i]>> \o IndicesToKeys(idx \ {i})

\* env.GRATITUDE_KV.list({ prefix: 'schedule:', cursor }): one page of keys, the
\* cursor after it, and whether the listing is complete.
ListPage(cursor) ==
    LET stored == {i \in (cursor + 1)..Len(AllScheduleKeys) : KeyStored(AllScheduleKeys[i])}
        page == {i \in stored : Cardinality({j \in stored : j < i}) < PageSize}
        next == IF page = {} THEN cursor ELSE CHOOSE i \in page : \A j \in page : j <= i
    IN [keys |-> IndicesToKeys(page), cursor |-> next,
        list_complete |-> (stored \ page = {})]

\* getSettingsForUser
getSettingsForUser(userId) == kvSettings[userId]

\* The trigger's run ends, by returning or by an exception.
RefreshEnds ==
    /\ rpc' = "idle"
    /\ rQueue' = <<>>
    /\ rCursor' = 0
    /\ rComplete' = TRUE

\* A page has been listed: its keys are processed, or the run returns.
RefreshTakes(page) ==
    IF page.keys = <<>> THEN RefreshEnds
    ELSE /\ rpc' = "keys"
         /\ rQueue' = page.keys
         /\ rCursor' = page.cursor
         /\ rComplete' = page.list_complete

\* The for loop goes on to the next key; after the page's last key the do-while
\* loop lists the next page unless the listing was complete.
RefreshNext ==
    IF Len(rQueue) > 1
    THEN /\ rQueue' = Tail(rQueue)
         /\ UNCHANGED <<rpc, rCursor, rComplete>>
    ELSE IF rComplete THEN RefreshEnds
    ELSE /\ rpc' = "list"
         /\ rQueue' = <<>>
         /\ UNCHANGED <<rCursor, rComplete>>

\* refreshSchedules up to the loop over the first page: the first page is
\* listed.  cron is the expression of the event whose handler called it.
RefreshStart(cron) ==
    /\ rpc = "idle"
    /\ budget.refreshes < MaxRefresh
    /\ budget' = [budget EXCEPT !.refreshes = @ + 1]
    /\ RefreshTakes(ListPage(0))
    /\ last' = Fired(Step("refresh", "-", "start", NoKey, NoSchedule, <<>>), cron)
    /\ UNCHANGED <<now, calc, stopped, kvVars, dVars, delivered, attempts, optedOut>>

\* refreshSchedules: a further page is listed.
RefreshList ==
    /\ rpc = "list"
    /\ RefreshTakes(ListPage(rCursor))
    /\ last' = Step("refresh", "-", "list", NoKey, NoSchedule, <<>>)
    /\ UNCHANGED <<now, calc, stopped, kvVars, dVars, delivered, attempts, optedOut, budget>>

\* refreshSchedules taking the stored settings first and the record's own fields
\* only when none are stored.
RefreshPlan_PrefersStored(k) ==
    LET schedule == kvSchedule[k.user]
        stored == getSettingsForUser(k.user)
        fromSchedule == settingsFromSchedule(schedule)
        settings == IF stored.kind = "set" THEN stored ELSE fromSchedule
    IN IF k.legacy
       THEN IF stored.kind = "set" /\ stored.enabled
            THEN [act |-> "migrate", settings |-> stored]
            ELSE [act |-> "drop", settings |-> NoSettings]
       ELSE IF schedule.kind # "rec" THEN [act |-> "continue", settings |-> NoSettings]
       ELSE IF schedule.timezone = "" THEN [act |-> "continue", settings |-> NoSettings]
       ELSE IF schedule.date = getDateInTimezone(schedule.timezone, now)
            THEN [act |-> "continue", settings |-> NoSettings]
       ELSE IF settings.kind # "set" \/ ~settings.enabled
            THEN [act |-> "delete", settings |-> NoSettings]
       ELSE [act |-> "rebuild", settings |-> settings]

\* The settings the loop body uses for a key, and what it does with the key:
\* "continue", "drop" (legacy key, no rebuild), "migrate", "delete", "rebuild".
RefreshPlan(k) ==
    LET schedule == kvSchedule[k.user]
        stored == getSettingsForUser(k.user)
        fromSchedule == settingsFromSchedule(schedule)
        settings == IF fromSchedule.kind = "set" THEN fromSchedule ELSE stored
    IN IF k.legacy
       THEN IF stored.kind = "set" /\ stored.enabled
            THEN [act |-> "migrate", settings |-> stored]
            ELSE [act |-> "drop", settings |-> NoSettings]
       ELSE IF schedule.kind # "rec" THEN [act |-> "continue", settings |-> NoSettings]
       ELSE IF schedule.timezone = "" THEN [act |-> "continue", settings |-> NoSettings]
       ELSE IF schedule.date = getDateInTimezone(schedule.timezone, now)
            THEN [act |-> "continue", settings |-> NoSettings]
       ELSE IF settings.kind # "set" \/ ~settings.enabled
            THEN [act |-> "delete", settings |-> NoSettings]
       ELSE [act |-> "rebuild", settings |-> settings]

\* The legacy keys when the loop body leaves a legacy key where it met it.
DeleteLegacyKey_Keeps(k) == kvLegacy

\* The legacy keys after env.GRATITUDE_KV.delete(key.name) of a legacy key.
DeleteLegacyKey(k) == kvLegacy \ {<<k.date, k.user>>}

\* One iteration of the for loop of refreshSchedules.
RefreshKey ==
    LET k == Head(rQueue)
        userId == k.user
        plan == RefreshPlan(k)
        schedule == kvSchedule[userId]
    IN
    /\ rpc = "keys"
    /\ \E rnd \in (IF plan.act \in {"migrate", "rebuild"}
                   THEN BuildDraws(plan.settings) ELSE {<<>>}) :
         LET built == IF plan.act = "migrate"
                      THEN buildScheduleForUser(userId, plan.settings, NoSchedule, rnd,
                                                kvSchedule, kvBucket, now)
                      ELSE buildScheduleForUser(userId, plan.settings, schedule, rnd,
                                                kvSchedule, kvBucket, now)
         IN CASE plan.act = "continue" ->
                   /\ RefreshNext
                   /\ last' = Step("refresh", userId, "continue", NoKey, schedule, <<>>)
                   /\ UNCHANGED <<kvSchedule, kvBucket, kvLegacy>>
              [] plan.act = "drop" ->
                   /\ kvLegacy' = DeleteLegacyKey(k)
                   /\ RefreshNext
                   /\ last' = Step("refresh", userId, "dropped", NoKey, schedule, <<>>)
                   /\ UNCHANGED <<kvSchedule, kvBucket>>
              [] plan.act = "delete" ->
                   /\ kvSchedule' = [kvSchedule EXCEPT ![userId] = NoSchedule]
                   /\ RefreshNext
                   /\ last' = Step("refresh", userId, "deleted", NoKey, schedule, <<>>)
                   /\ UNCHANGED <<kvBucket, kvLegacy>>
              [] plan.act \in {"migrate", "rebuild"} /\ built.threw ->
                   /\ RefreshEnds
                   /\ last' = Step("refresh", userId, "threw", NoKey, schedule,
                                   Tail(rQueue))
                   /\ UNCHANGED <<kvSchedule, kvBucket, kvLegacy>>
              [] plan.act = "migrate" /\ ~built.threw ->
                   /\ kvSchedule' = built.sched
                   /\ kvBucket' = built.b
                   /\ kvLegacy' = DeleteLegacyKey(k)
                   /\ RefreshNext
                   /\ last' = Step("refresh", userId, "migrated", NoKey, schedule, <<>>)
              [] plan.act = "rebuild" /\ ~built.threw ->
                   /\ kvSchedule' = built.sched
                   /\ kvBucket' = built.b
                   /\ RefreshNext
                   /\ last' = Step("refresh", userId, "rebuilt", NoKey, schedule, <<>>)
                   /\ UNCHANGED kvLegacy
    /\ UNCHANGED <<now, calc, stopped, kvSettings, kvSub, dVars, delivered,
                   attempts, optedOut, budget>>

\* ------------------------------------------------------------- cron triggers

\* scheduled with the hourly cron routed to Dispatch as every other one is.
scheduled_AlwaysDispatch(cron) == DispatchStart(cron)

\* scheduled(event, env, ctx): the hourly cron runs refreshSchedules and
\* returns; every other cron runs processMinuteBucket.
scheduled(cron) ==
    IF cron = HourlyCron THEN RefreshStart(cron) ELSE DispatchStart(cron)

Scheduled == \E cron \in Crons : scheduled(cron)

\* ----------------------------------------------------------------- the clock

\* A UTC minute passes while no trigger is running.
Tick ==
    /\ now < LastInstant
    /\ dpc = "idle"
    /\ rpc = "idle"
    /\ now' = now + 1
    /\ budget' = [budget EXCEPT !.runs = 0]
    /\ last' = Step("tick", "-", "ok", NoKey, NoSchedule, <<>>)
    /\ UNCHANGED <<kvVars, dVars, rVars, delivered, attempts, optedOut, stopped, calc>>

\* ------------------------------------------------------------ initial states

\* A record of the shape schedule:{id} had before the record carried the
\* user's settings: settingsFromSchedule cannot recover settings from it.
OlderKey == UtcKey(IsoParts(DstInstant))
OlderRecord == Schedule(1, "Z", 0, NoTime, NoTime, <<WinMid>>, <<OlderKey>>, <<>>)

EmptyStore ==
    [settings |-> [u \in Users |-> NoSettings],
     schedule |-> [u \in Users |-> NoSchedule],
     legacy |-> {},
     bucket |-> [k \in BucketKeys |-> NoBucket]]

\* What the store holds when the worker is deployed: nothing, or what an
\* earlier version of the worker left for user u1.
Seeds ==
    {EmptyStore}
    \cup {[EmptyStore EXCEPT !.legacy = {<<1, "u1">>}, !.settings["u1"] = s] :
            s \in {Settings(TRUE, 1, WinStart, WinEnd, "Z"),
                   Settings(FALSE, 1, WinStart, WinEnd, "Z")}}
    \cup {[EmptyStore EXCEPT !.schedule["u1"] = OlderRecord,
                             !.bucket[OlderKey] = Bucket(<<"u1">>),
                             !.settings["u1"] = s] :
            s \in {NoSettings, Settings(FALSE, 1, WinStart, WinEnd, "Z")}}

\* The subscriptions stored: user u2 has one whose endpoint accepts pushes;
\* user u1 has one, or one whose endpoint answers 410, or one that is not
\* valid JSON, or none.
SeedSubscriptions(seed) ==
    {[u \in Users |-> IF u = "u1" THEN s ELSE "good"] :
        s \in IF seed = EmptyStore THEN {"good", "gone", "unparsable", "none"}
              ELSE {"good"}}

Init ==
    /\ now = FirstInstant
    /\ \E seed \in Seeds :
         /\ kvSettings = seed.settings
         /\ kvSchedule = seed.schedule
         /\ kvLegacy = seed.legacy
         /\ kvBucket = seed.bucket
         /\ kvSub \in SeedSubscriptions(seed)
    /\ dpc = "idle"
    /\ dKey = NoKey
    /\ dQueue = <<>>
    /\ dSched = NoSchedule
    /\ dSub = "none"
    /\ rpc = "idle"
    /\ rQueue = <<>>
    /\ rCursor = 0
    /\ rComplete = TRUE
    /\ delivered = [u \in Users |-> [k \in DispatchKeys |-> 0]]
    /\ attempts = [u \in Users |-> [k \in DispatchKeys |-> 0]]
    /\ optedOut = {}
    /\ budget = [saves |-> 0, refreshes |-> 0, runs |-> 0]
    /\ stopped = {}
    /\ calc = NoCalc
    /\ last = Step("init", "-", "ok", NoKey, NoSchedule, <<>>)

Next ==
    \/ SaveSettings
    \/ Scheduled
    \/ DispatchCheck
    \/ DispatchSend
    \/ DispatchWrite
    \/ RefreshList
    \/ RefreshKey
    \/ Tick

Spec == Init /\ [][Next]_vars

\* A trigger that fires Dispatch in every UTC minute: the minute passes only
\* after a Dispatch run of that minute.
TickAfterDispatch == Tick /\ budget.runs >= 1

NextEveryMinute ==
    \/ SaveSettings
    \/ Scheduled
    \/ DispatchCheck
    \/ DispatchSend
    \/ DispatchWrite
    \/ RefreshList
    \/ RefreshKey
    \/ TickAfterDispatch

SpecEveryMinute == Init /\ [][NextEveryMinute]_vars

\* ------------------------------------------- the engines on a stored state

\* A record buildScheduleForUser stored on date 1 for the window every choice
\* of settings uses, in zone Z.
BuiltRecord ==
    Schedule(1, "Z", 1, WinStart, WinEnd, <<WinMid>>, <<OlderKey>>, <<>>)

\* Settings whose window generateRandomTimes rejects; handleSaveSettings
\* stores them before the build throws.
InvalidWindow == Settings(TRUE, 1, WinMid, WinStart, "Z")

\* What the store can hold for one user when a trigger fires: a legacy key or
\* none; no record, a record of the older shape, a built record, or a value
\* that is not valid JSON; and settings.  A built record has settings stored
\* next to it, since handleSaveSettings stores them first.
StoredUser ==
    {[legacy |-> l, schedule |-> r, settings |-> st] :
        <<l, r, st>> \in
            {<<l, r, st>> \in BOOLEAN
                              \X {NoSchedule, OlderRecord, BuiltRecord, CorruptSchedule}
                              \X {NoSettings, Settings(TRUE, 1, WinStart, WinEnd, "Z"),
                                  Settings(FALSE, 1, WinStart, WinEnd, "Z"), InvalidWindow} :
                r = BuiltRecord => st # NoSettings}}

\* The payloads the bucket of a stored record's minute can hold.
BucketPayloads == {"list", "corrupt", "notlist"}

\* The bucket store next to the users' records: the users whose record was
\* built for OlderKey are members of that bucket, unless its payload is not a
\* list.
StoredBuckets(f, payload) ==
    LET members == SelectSeq(UserOrder, LAMBDA u : f[u].schedule.kind # "absent")
    IN [k \in BucketKeys |->
          IF k # OlderKey THEN NoBucket
          ELSE IF payload = "corrupt" THEN CorruptBucket
          ELSE IF payload = "notlist" THEN NotListBucket
          ELSE IF members = <<>> THEN NoBucket
          ELSE Bucket(members)]

\* The instants at which a trigger finds the stored state: the minute the
\* stored records name, and the first minute of the next date.
StoredInstants == {FirstInstant, 2 * DayLen}

InitStored ==
    /\ now \in StoredInstants
    /\ \E f \in [Users -> StoredUser], payload \in BucketPayloads :
         /\ kvSettings = [u \in Users |-> f[u].settings]
         /\ kvSchedule = [u \in Users |-> f[u].schedule]
         /\ kvLegacy = {<<1, u>> : u \in {v \in Users : f[v].legacy}}
         /\ kvBucket = StoredBuckets(f, payload)
    /\ kvSub = [u \in Users |-> "good"]
    /\ dpc = "idle"
    /\ dKey = NoKey
    /\ dQueue = <<>>
    /\ dSched = NoSchedule
    /\ dSub = "none"
    /\ rpc = "idle"
    /\ rQueue = <<>>
    /\ rCursor = 0
    /\ rComplete = TRUE
    /\ delivered = [u \in Users |-> [k \in DispatchKeys |-> 0]]
    /\ attempts = [u \in Users |-> [k \in DispatchKeys |-> 0]]
    /\ optedOut = {}
    /\ budget = [saves |-> 0, refreshes |-> 0, runs |-> 0]
    /\ stopped = {}
    /\ calc = NoCalc
    /\ last = Step("init", "-", "ok", NoKey, NoSchedule, <<>>)

\* Both triggers on the stored state, within one minute.
NextEngines ==
    \/ Scheduled
    \/ DispatchCheck
    \/ DispatchSend
    \/ DispatchWrite
    \/ RefreshList
    \/ RefreshKey

SpecEngines == InitStored /\ [][NextEngines]_vars

\* ------------------------------------------------- bucket updates, step by step
\* addUserToBucket and removeUserFromBucket each await a get and then a put or
\* delete; calls made by requests or runs that overlap interleave at the awaits.
\* calc holds, per user, the call in flight: its position, the function, the
\* bucket key, the payload the get returned and the list the call will put.

RaceKeys == {OlderKey, UtcKey(IsoParts(LastInstant))}

RacePayloads ==
    {NoBucket, CorruptBucket, NotListBucket, Bucket(<<"u1">>), Bucket(<<"u2">>),
     Bucket(<<"u1", "u2">>), Bucket(<<"u2", "u1">>)}

NotCalled == [pc |-> "idle", fn |-> "none", key |-> NoKey, seen |-> NoBucket, list |-> <<>>]

InFlight(flight) == [op |-> "bucket", flight |-> flight]

InitBuckets ==
    /\ now = FirstInstant
    /\ kvSettings = EmptyStore.settings
    /\ kvSchedule = EmptyStore.schedule
    /\ kvLegacy = EmptyStore.legacy
    /\ \E f \in [RaceKeys -> RacePayloads] :
         kvBucket = [k \in BucketKeys |-> IF k \in RaceKeys THEN f[k] ELSE NoBucket]
    /\ kvSub = [u \in Users |-> "none"]
    /\ dpc = "idle"
    /\ dKey = NoKey
    /\ dQueue = <<>>
    /\ dSched = NoSchedule
    /\ dSub = "none"
    /\ rpc = "idle"
    /\ rQueue = <<>>
    /\ rCursor = 0
    /\ rComplete = TRUE
    /\ delivered = [u \in Users |-> [k \in DispatchKeys |-> 0]]
    /\ attempts = [u \in Users |-> [k \in DispatchKeys |-> 0]]
    /\ optedOut = {}
    /\ budget = [saves |-> 0, refreshes |-> 0, runs |-> 0]
    /\ stopped = {}
    /\ last = Step("init", "-", "ok", NoKey, NoSchedule, <<>>)
    /\ calc = InFlight([u \in Users |-> NotCalled])

notBuckets == <<now, kvSettings, kvSchedule, kvLegacy, kvSub, dVars, rVars, delivered,
                attempts, optedOut, budget, stopped, last>>

\* A request or run for userId calls addUserToBucket or removeUserFromBucket.
BucketCall ==
    \E userId \in Users, fn \in {"add", "remove"}, key \in RaceKeys :
        /\ calc.flight[userId].pc = "idle"
        /\ calc' = InFlight([calc.flight EXCEPT ![userId] =
                                [NotCalled EXCEPT !.pc = "get", !.fn = fn, !.key = key]])
        /\ UNCHANGED <<kvBucket, notBuckets>>

\* await env.GRATITUDE_KV.get(key) and the code up to the next await: the call
\* returns, or has the list it is going to store.
BucketGet ==
    \E userId \in Users :
        LET call == calc.flight[userId]
            existing == kvBucket[call.key]
            list == IF existing.kind = "list" THEN existing.members ELSE <<>>
            filtered == SelectSeq(list, LAMBDA id : id # userId)
            returns == IF call.fn = "add" THEN Includes(list, userId)
                       ELSE existing.kind # "list"
        IN /\ call.pc = "get"
           /\ calc' = InFlight([calc.flight EXCEPT ![userId] =
                  [call EXCEPT !.pc = IF returns THEN "done" ELSE "put",
                               !.seen = existing,
                               !.list = IF call.fn = "add" THEN Append(list, userId)
                                        ELSE filtered]])
           /\ UNCHANGED <<kvBucket, notBuckets>>

\* await env.GRATITUDE_KV.put(key, JSON.stringify(list)), or delete(key) when
\* removeUserFromBucket filtered the list to nothing.
BucketPut ==
    \E userId \in Users :
        LET call == calc.flight[userId]
        IN /\ call.pc = "put"
           /\ kvBucket' = [kvBucket EXCEPT ![call.key] =
                  IF Len(call.list) = 0 THEN NoBucket ELSE Bucket(call.list)]
           /\ calc' = InFlight([calc.flight EXCEPT ![userId] = [call EXCEPT !.pc = "done"]])
           /\ UNCHANGED notBuckets

NextBuckets ==
    \/ BucketCall
    \/ BucketGet
    \/ BucketPut

SpecBuckets == InitBuckets /\ [][NextBuckets]_vars


\* ------------------------------------------------- calls of pure functions

\* The worker at rest on an empty store, while a pure function is called.
AtRest ==
    /\ now = FirstInstant
    /\ kvSettings = EmptyStore.settings
    /\ kvSchedule = EmptyStore.schedule
    /\ kvLegacy = EmptyStore.legacy
    /\ kvBucket = EmptyStore.bucket
    /\ kvSub = [u \in Users |-> "none"]
    /\ dpc = "idle"
    /\ dKey = NoKey
    /\ dQueue = <<>>
    /\ dSched = NoSchedule
    /\ dSub = "none"
    /\ rpc = "idle"
    /\ rQueue = <<>>
    /\ rCursor = 0
    /\ rComplete = TRUE
    /\ delivered = [u \in Users |-> [k \in DispatchKeys |-> 0]]
    /\ attempts = [u \in Users |-> [k \in DispatchKeys |-> 0]]
    /\ optedOut = {}
    /\ budget = [saves |-> 0, refreshes |-> 0, runs |-> 0]
    /\ stopped = {}
    /\ last = Step("init", "-", "ok", NoKey, NoSchedule, <<>>)

workerVars == <<now, kvVars, dVars, rVars, delivered, attempts, optedOut, budget,
                stopped, last>>

\* A call with its arguments, before it returns.
Call(op, args) == [op |-> op, done |-> FALSE, args |-> args, result |-> [pending |-> TRUE]]
Returns(result) == calc' = [calc EXCEPT !.done = TRUE, !.result = result]

\* Every local time of the day, and every pair of them as a window.
TimesOfDay == {FormatTime(m) : m \in 0..(DayLen - 1)}

\* The values Math.floor(Math.random() * windowMinutes) takes in n draws; a
\* window that is not positive yields 0 (or -0).
DrawsOver(n, startTime, endTime) ==
    LET w == ParseTime(endTime) - ParseTime(startTime)
    IN [1..n -> 0..(IF w > 0 THEN w - 1 ELSE 0)]

RandomTimesCalls ==
    {Call("generateRandomTimes", [n |-> n, startTime |-> s, endTime |-> e, rnd |-> r]) :
        <<n, s, e, r>> \in
            UNION {{<<n, s, e, r>> : r \in DrawsOver(n, s, e)} :
                     <<n, s, e>> \in (1..MaxN) \X TimesOfDay \X TimesOfDay}}

ToUtcCalls ==
    {Call("toUtcDateTimeParts", [date |-> d, time |-> t, timezone |-> tz]) :
        <<d, t, tz>> \in (1..MaxDate) \X TimesOfDay \X (Zones \cup DstZones)}

\* Push endpoints, as scheme, authority and path, and the text of each.
Endpoints ==
    {[scheme |-> <<"h", "t", "t", "p", "s">>,
      host |-> <<"f", "c", "m", ".", "a", ".", "i", "o">>,
      path |-> <<"/", "s", "e", "n", "d", "/", "x", ":", "1">>],
     [scheme |-> <<"h", "t", "t", "p", "s">>,
      host |-> <<"b", ".", "c", ":", "8", "4", "4", "3">>,
      path |-> <<"/", "p">>],
     [scheme |-> <<"h", "t", "t", "p">>,
      host |-> <<"h">>,
      path |-> <<>>]}

Href(url) == url.scheme \o <<":", "/", "/">> \o url.host \o url.path

\* env.VAPID_SUBJECT
VapidSubject == <<"m", "a", "i", "l", "t", "o", ":", "a", "@", "b", ".", "c">>

\* Values of Date.now(), in milliseconds.
SigningTimes == {0, 999, 1000, 59999}

\* The 64 bytes crypto.subtle.sign returns for P-256.
Signatures ==
    {[i \in 1..64 |-> 0],
     [i \in 1..64 |-> 255],
     [i \in 1..64 |-> (i * 37) % 256],
     [i \in 1..64 |-> IF i % 3 = 1 THEN 251 ELSE IF i % 3 = 2 THEN 239 ELSE 190]}

SendPushCalls ==
    {Call("sendPush", [url |-> u, endpoint |-> Href(u), nowMs |-> ms, signature |-> sig]) :
        <<u, ms, sig>> \in Endpoints \X SigningTimes \X Signatures}

\* Instants at which processUserForUtcTime is called, and the records it can
\* read then: none, an unparsable one, or a record of any date and zone that
\* lists the minute of the call, another minute, both or neither.
CheckInstants == {FirstInstant, 2 * DayLen}
RecordsAt(t) ==
    LET key == UtcKey(IsoParts(t))
        other == UtcKey(IsoParts(t + 1))
    IN {NoSchedule, CorruptSchedule}
       \cup {Schedule(d, tz, 1, WinStart, WinEnd, <<WinMid>>, u, sent) :
               <<d, tz, u, sent>> \in (1..MaxDate) \X (Zones \cup {""})
                                       \X {<<>>, <<key>>, <<other>>, <<key, other>>}
                                       \X {<<>>, <<key>>, <<other>>}}

ProcessUserCalls ==
    {Call("processUserForUtcTime",
          [schedule |-> r, subscription |-> sub, utcKey |-> UtcKey(IsoParts(t)), t |-> t]) :
        <<t, r, sub>> \in
            UNION {{<<t, r, sub>> : r \in RecordsAt(t),
                                    sub \in {"good", "gone", "unparsable", "none"}} :
                     t \in CheckInstants}}

\* The bytes of a DER INTEGER: n bytes, the first one lead.
DerInteger(n, lead) == [i \in 1..n |-> IF i = 1 THEN lead ELSE (i * 29 + n) % 256]

\* INTEGER fields of a P-256 signature: 33 bytes when the value has its top bit
\* set (a leading 0), 32 bytes, and shorter ones for small values.
DerIntegers ==
    {DerInteger(33, 0), DerInteger(32, 91), DerInteger(31, 17), DerInteger(29, 5)}

\* DER: 0x30 [total-length] 0x02 [r-length] [r] 0x02 [s-length] [s]
DerEncode(r, s) ==
    <<48, 4 + Len(r) + Len(s), 2, Len(r)>> \o r \o <<2, Len(s)>> \o s

DerToRawCalls ==
    {Call("derToRaw", [kind |-> "raw", r |-> SubSeq(sig, 1, 32), s |-> SubSeq(sig, 33, 64),
                       bytes |-> sig]) : sig \in Signatures}
    \cup {Call("derToRaw", [kind |-> "der", r |-> r, s |-> s, bytes |-> DerEncode(r, s)]) :
              <<r, s>> \in DerIntegers \X DerIntegers}

ApplyDerToRaw ==
    /\ calc.op = "derToRaw"
    /\ ~calc.done
    /\ Returns([raw |-> derToRaw(calc.args.bytes)])
    /\ UNCHANGED workerVars

ApplyRandomTimes ==
    /\ calc.op = "generateRandomTimes"
    /\ ~calc.done
    /\ Returns(generateRandomTimes(calc.args.n, calc.args.startTime, calc.args.endTime,
                                   calc.args.rnd))
    /\ UNCHANGED workerVars

ApplyToUtc ==
    /\ calc.op = "toUtcDateTimeParts"
    /\ ~calc.done
    /\ Returns(toUtcDateTimeParts(calc.args.date, calc.args.time, calc.args.timezone))
    /\ UNCHANGED workerVars

\* sendPush up to the request: the payload and the token it builds.
ApplySendPush ==
    /\ calc.op = "sendPush"
    /\ ~calc.done
    /\ LET payload == VapidPayload(calc.args.endpoint, calc.args.nowMs, VapidSubject)
       IN Returns([payload |-> payload,
                   jwt |-> createVapidJwt(VapidHeader, payload, calc.args.signature)])
    /\ UNCHANGED workerVars

ApplyProcessUser ==
    /\ calc.op = "processUserForUtcTime"
    /\ ~calc.done
    /\ Returns(processUserForUtcTime(calc.args.schedule, calc.args.subscription,
                                     calc.args.utcKey, calc.args.t))
    /\ UNCHANGED workerVars

InitPure ==
    /\ AtRest
    /\ \/ calc \in RandomTimesCalls
       \/ calc \in ToUtcCalls
       \/ calc \in SendPushCalls
       \/ calc \in ProcessUserCalls
       \/ calc \in DerToRawCalls

NextPure ==
    \/ ApplyRandomTimes
    \/ ApplyToUtc
    \/ ApplySendPush
    \/ ApplyProcessUser
    \/ ApplyDerToRaw

SpecPure == InitPure /\ [][NextPure]_vars

\* ================================================================== claims

Members(key) == IF kvBucket[key].kind = "list" THEN SeqToSet(kvBucket[key].members) ELSE {}
Built == last.outcome \in {"built", "migrated", "rebuilt"}

\* C1: Dispatch sends at most one push per (user id, UTC minute key), across
\* any sequence of non-overlapping Dispatch runs, Refresh runs and saves.
C1_AtMostOnePush ==
    \A u \in Users : \A k \in DispatchKeys : delivered[u][k] <= 1

C3_EveryKeyDelivered ==
    (\A v \in Users : kvSub[v] = "good")
      => \A u \in Users :
           (kvSchedule[u].kind = "rec" /\ kvSchedule[u].remindersPerDay # 0)
             => \A i \in 1..Len(kvSchedule[u].utcTimes) :
                  KeyInstant(kvSchedule[u].utcTimes[i]) < now
                    => Includes(kvSchedule[u].sentUtc, kvSchedule[u].utcTimes[i])

\* C4: a member's failure does not abort the Dispatch run: when a member's
\* processing throws, no member after it in the bucket is left due and unprocessed.
C4_FailureIsolated ==
    (last.op \in {"check", "send"} /\ last.outcome = "threw")
      => \A i \in 1..Len(last.rest) :
           CheckUser(kvSchedule[last.rest[i]], kvSub[last.rest[i]], last.key, now) # "send"

\* C5: after buildScheduleForUser completes for a user, the user id is a member
\* of the bucket of every UTC key in the stored record's utcTimes.
C5_BuiltInBuckets ==
    Built => \A i \in 1..Len(kvSchedule[last.user].utcTimes) :
               last.user \in Members(kvSchedule[last.user].utcTimes[i])

C5_Witness ==
    /\ Built
    /\ Len(kvSchedule[last.user].utcTimes) = 2
    /\ kvSchedule[last.user].utcTimes[1] # kvSchedule[last.user].utcTimes[2]
    /\ Members(kvSchedule[last.user].utcTimes[2]) = Users

\* C6: after a rebuild for a user who had a Schedule Record, the user id is in
\* no bucket the previous record's utcTimes names and the new record's do not.
C6_OldBucketsLeft ==
    (Built /\ last.prev.kind = "rec")
      => \A i \in 1..Len(last.prev.utcTimes) :
           Includes(kvSchedule[last.user].utcTimes, last.prev.utcTimes[i])
           \/ last.user \notin Members(last.prev.utcTimes[i])

\* C7: whenever a Schedule Record is deleted, the user id is removed from every
\* bucket the deleted record's utcTimes names.
C7_DeleteClearsBuckets ==
    (last.outcome = "deleted" /\ last.prev.kind = "rec")
      => \A i \in 1..Len(last.prev.utcTimes) :
           last.user \notin Members(last.prev.utcTimes[i])

\* C8: after a completed save with enabled = false no Schedule Record exists for
\* the user until a later save with enabled = true.
C8_NoRecordAfterOptOut ==
    \A u \in optedOut : kvSchedule[u].kind = "absent"

\* The wall clock of the record's zone at the key's UTC minute is on the
\* record's date and in [startTime, endTime).
InWindow(schedule, key) ==
    LET wall == LocalParts(schedule.timezone, KeyInstant(key))
    IN /\ wall.date = schedule.date
       /\ ParseTime(schedule.startTime) <= ParseTime(wall.time)
       /\ ParseTime(wall.time) < ParseTime(schedule.endTime)

\* Some instant shows this wall clock in the zone: the local time is not one
\* a forward change of the zone's offset skips.
LocalTimeExists(tz, date, time) ==
    \E t \in (DateUTC(date, time) - DayLen)..(DateUTC(date, time) + DayLen) :
        LocalParts(tz, t) = [date |-> date, time |-> time]

NoSkippedTime(schedule) ==
    \A i \in 1..Len(schedule.times) :
        LocalTimeExists(schedule.timezone, schedule.date, schedule.times[i])

Pushed == last.op = "send" /\ last.outcome = "sent" /\ dSched.startTime # NoTime

C10_RefreshIsolated ==
    (last.op = "refresh" /\ last.outcome = "threw")
      => \A u \in Users \ {last.user} : RefreshPlan(CurrentKey(u)).act # "rebuild"

\* C11: the members a stopped Dispatch run left unprocessed are found and
\* delivered by the next minute's run: once that minute has passed, with its
\* run, none of them is still a member of the bucket with the key due.
C11_StoppedRunResumed ==
    \A p \in stopped :
        KeyInstant(p[2]) + 1 < now
          => ~(/\ p[1] \in Members(p[2])
               /\ CheckUser(kvSchedule[p[1]], kvSub[p[1]], p[2], KeyInstant(p[2]) + 1) = "send")

\* C12: after a push for (user, key) failed, no Dispatch run requests a push
\* for that user and key again.
C12_NoRetry ==
    \A u \in Users : \A k \in DispatchKeys :
        attempts[u][k] > delivered[u][k] => attempts[u][k] <= 1

\* C13: in every stored Schedule Record sentUtc is a subset of utcTimes.
C13_SentSubsetOfUtcTimes ==
    \A u \in Users :
        kvSchedule[u].kind = "rec"
          => SeqToSet(kvSchedule[u].sentUtc) \subseteq SeqToSet(kvSchedule[u].utcTimes)

C13_Witness ==
    /\ last.op = "write"
    /\ kvSchedule[last.user].sentUtc = <<last.key>>
    /\ SeqToSet(kvSchedule[last.user].utcTimes) # {last.key}

C17_InvalidWindowRejected ==
    (/\ last.op = "save"
     /\ ResponseStatus(last.outcome) # 400
     /\ kvSettings[last.user].enabled)
      => ParseTime(kvSettings[last.user].startTime) < ParseTime(kvSettings[last.user].endTime)

\* C19: an event with the hourly cron starts a Refresh run and no Dispatch run,
\* an event with any other cron starts a Dispatch run and no Refresh run.
C19_OneEnginePerEvent ==
    [][/\ last'.cron = HourlyCron
            => /\ last'.op = "refresh"
               /\ budget'.refreshes = budget.refreshes + 1
               /\ budget'.runs = budget.runs
               /\ UNCHANGED dVars
       /\ last'.cron \in Crons \ {HourlyCron}
            => /\ last'.op = "dispatch"
               /\ budget'.runs = budget.runs + 1
               /\ budget'.refreshes = budget.refreshes
               /\ UNCHANGED rVars]_vars

C19_Witness ==
    /\ last.cron = HourlyCron
    /\ last.op = "refresh"
    /\ rpc = "keys"
    /\ dpc = "write"

Returned(op) == calc.op = op /\ calc.done
Minutes(times) == [i \in 1..Len(times) |-> ParseTime(times[i])]

\* C15: for n >= 1 and start < end, generateRandomTimes returns exactly n
\* times, each >= start and < end, in non-decreasing order, whatever the draws.
C15_RandomTimesInWindow ==
    (/\ Returned("generateRandomTimes")
     /\ calc.args.n >= 1
     /\ ParseTime(calc.args.startTime) < ParseTime(calc.args.endTime))
      => LET m == Minutes(calc.result.times)
         IN /\ ~calc.result.threw
            /\ Len(m) = calc.args.n
            /\ \A i \in 1..Len(m) :
                 /\ ParseTime(calc.args.startTime) <= m[i]
                 /\ m[i] < ParseTime(calc.args.endTime)
            /\ \A i \in 1..(Len(m) - 1) : m[i] <= m[i + 1]

C15_Witness ==
    /\ Returned("generateRandomTimes")
    /\ calc.args.n = MaxN
    /\ calc.args.rnd[1] > calc.args.rnd[2]
    /\ calc.args.rnd[2] = calc.args.rnd[3]
    /\ Len(calc.result.times) = MaxN

\* C16: generateRandomTimes throws the invalid-window error and returns no
\* times whenever start >= end in minutes since midnight.
C16_InvalidWindowThrows ==
    (/\ Returned("generateRandomTimes")
     /\ ParseTime(calc.args.startTime) >= ParseTime(calc.args.endTime))
      => calc.result = Throw

C16_Witness ==
    /\ Returned("generateRandomTimes")
    /\ calc.args.startTime = calc.args.endTime
    /\ calc.result.threw

\* The zone's offset is the same from a day before the local date to a day
\* after it.
NoOffsetChange(tz, date) ==
    \A t \in ((date - 1) * DayLen)..((date + 2) * DayLen) :
        ZoneRule(tz, t) = ZoneRule(tz, date * DayLen)

\* C18: for a zone without an offset change in the interval, the wall clock of
\* the zone at the UTC instant toUtcDateTimeParts returns is the local date and
\* time converted.
C18_ToUtcRoundTrip ==
    (Returned("toUtcDateTimeParts") /\ NoOffsetChange(calc.args.timezone, calc.args.date))
      => LocalParts(calc.args.timezone, DateUTC(calc.result.date, calc.result.time))
           = [date |-> calc.args.date, time |-> calc.args.time]

C18_Witness ==
    /\ Returned("toUtcDateTimeParts")
    /\ calc.args.timezone = "E"
    /\ calc.args.time = FormatTime(0)
    /\ calc.result.date = calc.args.date - 1
    /\ calc.result.time = FormatTime(DayLen - 1)

\* The segments of a text between the separators.
RECURSIVE Split(_, _)
Split(text, sep) ==
    LET i == IndexOf(text, sep, 1)
    IN IF i > Len(text) THEN <<text>>
       ELSE <<SubSeq(text, 1, i - 1)>> \o Split(SubSeq(text, i + 1, Len(text)), sep)

Base64UrlChars == (SeqToSet(Base64Chars) \ {"+", "/"}) \cup {"-", "_"}

\* C20: the token has exactly three dot-joined base64url segments, which
\* decode to the header, the payload and the signature; the payload's aud is
\* scheme://host of the endpoint and its exp is the signing time plus 12 hours,
\* between 11h59m and 12h01m ahead.
C20_TokenShape ==
    Returned("sendPush")
      => LET segments == Split(calc.result.jwt, ".")
             payload == calc.result.payload
             ahead == payload.exp * 1000 - calc.args.nowMs
         IN /\ Len(segments) = 3
            /\ \A i \in 1..Len(segments) : SeqToSet(segments[i]) \subseteq Base64UrlChars
            /\ base64UrlDecode(segments[1]) = TextEncode(VapidHeader)
            /\ base64UrlDecode(segments[2]) = TextEncode(StringifyPayload(payload))
            /\ base64UrlDecode(segments[3]) = calc.args.signature
            /\ payload.aud = calc.args.url.scheme \o <<":", "/", "/">> \o calc.args.url.host
            /\ payload.exp = (calc.args.nowMs \div 1000) + 12 * 60 * 60
            /\ ahead >= (11 * 60 + 59) * 60 * 1000
            /\ ahead <= (12 * 60 + 1) * 60 * 1000

C20_Witness ==
    /\ Returned("sendPush")
    /\ calc.args.nowMs = 999
    /\ calc.args.url.path # <<>>
    /\ "." \in SeqToSet(calc.result.payload.aud)
    /\ "-" \in SeqToSet(Split(calc.result.jwt, ".")[3])
    /\ calc.result.payload.exp = 12 * 60 * 60

\* C21: a bucket member whose stored Schedule Record is absent or does not list
\* the run's UTC key is skipped, with no push and no write; every push request
\* and every write of a run is for a record the run read that lists the key.
C21_NoPushOnMembershipAlone ==
    /\ (/\ last.op = "check"
        /\ ~(last.prev.kind = "rec" /\ Includes(last.prev.utcTimes, last.key)))
          => /\ last.outcome = "skip"
             /\ dpc \notin {"send", "write"}
             /\ kvSchedule[last.user] = last.prev
    /\ dpc \in {"send", "write"}
          => /\ dSched.kind = "rec"
             /\ Includes(dSched.utcTimes, dKey)

C21_Witness ==
    /\ last.op = "check"
    /\ last.outcome = "skip"
    /\ last.user \in Members(last.key)
    /\ last.prev.kind = "rec"
    /\ last.prev.utcTimes # <<>>
    /\ ~Includes(last.prev.utcTimes, last.key)
    /\ kvSub[last.user] = "good"
    /\ attempts[last.user][last.key] = 0

\* C22: a call of processUserForUtcTime on a record whose date is not today's
\* date in the record's timezone requests no push and leaves the record as it
\* is, whatever utcTimes and sentUtc hold.
C22_StaleRecordNotSent ==
    (/\ Returned("processUserForUtcTime")
     /\ calc.args.schedule.kind = "rec"
     /\ calc.args.schedule.timezone # ""
     /\ calc.args.schedule.date
          # getDateInTimezone(calc.args.schedule.timezone, calc.args.t))
      => /\ ~calc.result.request
         /\ ~calc.result.threw
         /\ calc.result.stored = calc.args.schedule

C22_Witness ==
    /\ Returned("processUserForUtcTime")
    /\ calc.args.schedule.kind = "rec"
    /\ calc.args.schedule.timezone # ""
    /\ calc.args.schedule.date
         # getDateInTimezone(calc.args.schedule.timezone, calc.args.t)
    /\ Includes(calc.args.schedule.utcTimes, calc.args.utcKey)
    /\ ~Includes(calc.args.schedule.sentUtc, calc.args.utcKey)
    /\ calc.args.subscription = "good"
    /\ ~calc.result.request
    /\ calc.result.stored.sentUtc = calc.args.schedule.sentUtc

\* This step is the iteration of the Refresh loop on the key schedule:{userId}.
RefreshVisits(userId) ==
    /\ rpc = "keys"
    /\ ~Head(rQueue).legacy
    /\ Head(rQueue).user = userId
    /\ last'.op = "refresh"
    /\ last'.user = userId

\* The record is one Refresh takes for stale at instant t.
Stale(rec, t) ==
    /\ rec.kind = "rec"
    /\ rec.timezone # ""
    /\ rec.date # getDateInTimezone(rec.timezone, t)

\* The settings of a stale record can be recovered and are enabled: from the
\* record's own fields, or from the stored settings.
Recoverable(userId) ==
    \/ settingsFromSchedule(kvSchedule[userId]).kind = "set"
    \/ kvSettings[userId].kind = "set" /\ kvSettings[userId].enabled

\* The record is a freshly built one for today at instant t: today's date in
\* its zone, one UTC key per local time, each the conversion of that time on
\* that date, and nothing sent.
FreshAt(rec, t) ==
    /\ rec.kind = "rec"
    /\ rec.date = getDateInTimezone(rec.timezone, t)
    /\ rec.sentUtc = <<>>
    /\ Len(rec.times) = rec.remindersPerDay
    /\ Len(rec.utcTimes) = Len(rec.times)
    /\ \A i \in 1..Len(rec.times) :
         rec.utcTimes[i] = UtcKey(toUtcDateTimeParts(rec.date, rec.times[i], rec.timezone))

\* C23: when the Refresh loop processes a stale record whose settings are
\* recoverable and enabled, the record stored afterwards is a fresh one for
\* today in its timezone, with sentUtc empty.
C23_StaleRecordRebuilt ==
    [][\A u \in Users :
         (RefreshVisits(u) /\ Stale(kvSchedule[u], now) /\ Recoverable(u))
           => FreshAt(kvSchedule'[u], now)]_vars

\* The four settings a record carries.
Carried(rec) == <<rec.remindersPerDay, rec.startTime, rec.endTime, rec.timezone>>

\* C24: when the Refresh loop processes a stale record with remindersPerDay,
\* startTime, endTime and timezone all populated, it stores a fresh record that
\* carries those four values, whatever the stored settings are; when one of the
\* four is missing and it rebuilds, the new record carries the stored settings.
C24_RebuildFromOwnFields ==
    [][\A u \in Users :
         (RefreshVisits(u) /\ Stale(kvSchedule[u], now))
           => /\ settingsFromSchedule(kvSchedule[u]).kind = "set"
                   => /\ FreshAt(kvSchedule'[u], now)
                      /\ Carried(kvSchedule'[u]) = Carried(kvSchedule[u])
              /\ (/\ settingsFromSchedule(kvSchedule[u]).kind # "set"
                  /\ last'.outcome = "rebuilt")
                   => /\ kvSettings[u].kind = "set"
                      /\ Carried(kvSchedule'[u]) = Carried(kvSettings[u])]_vars

C24_Witness ==
    /\ last.op = "refresh"
    /\ last.outcome = "rebuilt"
    /\ Stale(last.prev, now)
    /\ settingsFromSchedule(last.prev).kind = "set"
    /\ kvSettings[last.user].kind = "set"
    /\ kvSettings[last.user] # settingsFromSchedule(last.prev)
    /\ Carried(kvSchedule[last.user]) = Carried(last.prev)
    /\ kvSchedule[last.user].date # last.prev.date

\* C25: when a Refresh run has returned, no legacy key remains; a legacy key
\* the loop met is gone after its iteration, with a current-shape record stored
\* for its user when the stored settings are enabled, and with the user's
\* record untouched when they are disabled or absent.
C25_NoLegacyKeyRemains ==
    /\ (last.op = "refresh" /\ rpc = "idle" /\ last.outcome # "threw")
          => kvLegacy = {}
    /\ last.outcome = "migrated"
          => /\ \A d \in 1..MaxDate : <<d, last.user>> \notin kvLegacy
             /\ kvSettings[last.user].kind = "set" /\ kvSettings[last.user].enabled
             /\ FreshAt(kvSchedule[last.user], now)
    /\ last.outcome = "dropped"
          => /\ \A d \in 1..MaxDate : <<d, last.user>> \notin kvLegacy
             /\ ~(kvSettings[last.user].kind = "set" /\ kvSettings[last.user].enabled)
             /\ kvSchedule[last.user] = last.prev

C25_Witness ==
    /\ last.op = "refresh"
    /\ last.outcome \in {"migrated", "dropped"}
    /\ rpc = "idle"
    /\ kvLegacy = {}

\* What is left of a Refresh run: the positions of the listing after the
\* cursor, the keys left of the page, and the listing of the next page.
RefreshLeft ==
    (Len(AllScheduleKeys) - rCursor) * (2 * PageSize + 2)
    + 2 * Len(rQueue) + (IF rpc = "list" THEN 1 ELSE 0)

\* C26: a Refresh run terminates and visits every key of the listing: every
\* step of a run ends it or leaves strictly less of it; an iteration handles
\* the first key left of its page and goes on to the next one; after the last
\* key of a page the next page is listed from the cursor unless the listing
\* was complete; a listed page is taken whole, and the run ends only after the
\* last key of a complete listing or on an empty page.
C26_RefreshVisitsEveryKey ==
    [][/\ (rpc # "idle" /\ last'.op = "refresh")
            => rpc' = "idle" \/ RefreshLeft' < RefreshLeft
       /\ (rpc = "keys" /\ last'.op = "refresh")
            => /\ last'.user = Head(rQueue).user
               /\ IF Len(rQueue) > 1
                  THEN rpc' = "keys" /\ rQueue' = Tail(rQueue) /\ rCursor' = rCursor
                  ELSE IF rComplete THEN rpc' = "idle"
                  ELSE rpc' = "list" /\ rCursor' = rCursor
       /\ (rpc = "list" /\ last'.op = "refresh")
            => /\ rQueue' = ListPage(rCursor).keys
               /\ rpc' = (IF rQueue' = <<>> THEN "idle" ELSE "keys")]_vars

\* C27: a call of processUserForUtcTime whose push request is answered with a
\* non-success status throws an error that carries the status and the response
\* body and leaves the record as read; the record it stores differs from the
\* one read only after a request that succeeded, by the key appended to
\* sentUtc.
C27_SentOnlyAfterSuccess ==
    Returned("processUserForUtcTime")
      => LET response == Fetch(calc.args.subscription)
         IN /\ (calc.result.request /\ ~response.ok)
                 => /\ calc.result.threw
                    /\ calc.result.error.message[2] = response.status
                    /\ calc.result.error.message[3] = response.text
                    /\ calc.result.stored = calc.args.schedule
            /\ calc.result.stored # calc.args.schedule
                 => /\ calc.result.request /\ response.ok /\ ~calc.result.threw
                    /\ calc.result.stored.sentUtc
                         = Append(calc.args.schedule.sentUtc, calc.args.utcKey)

C27_Witness ==
    /\ Returned("processUserForUtcTime")
    /\ calc.args.subscription = "gone"
    /\ calc.result.request
    /\ calc.result.threw
    /\ calc.result.error.message = <<"Push failed:", 410, "gone">>
    /\ calc.result.stored = calc.args.schedule
    /\ ~Includes(calc.result.stored.sentUtc, calc.args.utcKey)

\* The payload of a bucket is not valid JSON, or is not a list.
BadPayload(bucket) == bucket.kind \in {"corrupt", "notlist"}

\* C28: a Dispatch run on a minute whose bucket payload is not valid JSON or
\* not a list ends at once, with no push, no write and no error; a step that
\* builds a record listing such a bucket's minute replaces the payload by the
\* list holding just that user; every other step, the removal of a user
\* included, leaves the payload as it is.
C28_BadBucketIsEmpty ==
    [][/\ (/\ dpc = "idle"
           /\ last'.op = "dispatch"
           /\ BadPayload(kvBucket[UtcKey(getCurrentUtcParts)]))
            => /\ dpc' = "idle"
               /\ last'.outcome = "empty"
               /\ UNCHANGED <<kvVars, delivered, attempts, stopped>>
       /\ \A k \in BucketKeys :
            BadPayload(kvBucket[k])
              => IF Built' /\ Includes(kvSchedule'[last'.user].utcTimes, k)
                 THEN kvBucket'[k] = Bucket(<<last'.user>>)
                 ELSE kvBucket'[k] = kvBucket[k]]_vars

\* A Dispatch run has ended on the bad payload of a minute in which a user's
\* record is due.
C28_Witness ==
    /\ last.op = "dispatch"
    /\ last.outcome = "empty"
    /\ BadPayload(kvBucket[last.key])
    /\ dpc = "idle"
    /\ \E u \in Users :
         /\ CheckUser(kvSchedule[u], kvSub[u], last.key, now) = "send"
         /\ attempts[u][last.key] = 0

\* C29: an iteration of either engine on a user whose schedule:{id} value is
\* not valid JSON skips it without an exception: Dispatch requests no push and
\* goes on to the next member of the bucket, Refresh goes on to the next key of
\* the listing, and the store, the corrupt value included, is left as it is.
C29_CorruptRecordSkipped ==
    [][/\ (/\ dpc = "loop"
           /\ last'.op = "check"
           /\ kvSchedule[Head(dQueue)] = CorruptSchedule)
            => /\ last'.outcome = "skip"
               /\ UNCHANGED <<kvVars, delivered, attempts, stopped>>
               /\ IF Len(dQueue) > 1
                  THEN dpc' = "loop" /\ dQueue' = Tail(dQueue)
                  ELSE dpc' = "idle"
       /\ (/\ rpc = "keys"
           /\ last'.op = "refresh"
           /\ ~Head(rQueue).legacy
           /\ kvSchedule[Head(rQueue).user] = CorruptSchedule)
            => /\ last'.outcome = "continue"
               /\ UNCHANGED kvVars
               /\ IF Len(rQueue) > 1
                  THEN rpc' = "keys" /\ rQueue' = Tail(rQueue)
                  ELSE IF rComplete THEN rpc' = "idle"
                  ELSE rpc' = "list"]_vars

\* The member after a user with a corrupt record has been sent its push, and
\* a Refresh run in which no build throws has passed the corrupt key.
C29_Witness ==
    /\ last.op = "send"
    /\ last.user = "u2"
    /\ last.outcome = "sent"
    /\ kvSchedule["u1"] = CorruptSchedule
    /\ kvBucket[last.key].kind = "list"
    /\ kvBucket[last.key].members = <<"u1", "u2">>
    /\ attempts["u1"][last.key] = 0
    /\ budget.refreshes = 1
    /\ rpc = "idle"
    /\ \A u \in Users : kvSettings[u] # InvalidWindow

\* C30: no bucket's member list holds a user id twice, and adding a user to a
\* bucket that already holds it changes nothing: a second addUserToBucket of
\* the same user and minute leaves the bucket store as the first left it.
C30_AddUserIdempotent ==
    /\ \A k \in BucketKeys :
         kvBucket[k].kind = "list"
           => Cardinality(SeqToSet(kvBucket[k].members)) = Len(kvBucket[k].members)
    /\ \A u \in Users, k \in BucketKeys :
         LET once == addUserToBucket(kvBucket, u, k)
         IN /\ addUserToBucket(once, u, k) = once
            /\ u \in Members(k) => once = kvBucket

\* A build has stored a record whose utcTimes names one minute twice, and the
\* bucket of that minute, which another user is in too, holds the user.
C30_Witness ==
    /\ Built
    /\ Len(kvSchedule[last.user].utcTimes) = 2
    /\ kvSchedule[last.user].utcTimes[1] = kvSchedule[last.user].utcTimes[2]
    /\ last.user \in Members(kvSchedule[last.user].utcTimes[1])
    /\ Len(kvBucket[kvSchedule[last.user].utcTimes[1]].members) = 2

\* C31: no stored bucket holds an empty member list; removeUserFromBucket of a
\* user and minute leaves every other bucket as it is and, in that bucket,
\* every other member in place and order; it leaves no bucket at all when the
\* user was the only member, and changes nothing when the user is not a member
\* or the bucket is absent.
C31_RemoveUserOnlyThatUser ==
    /\ \A k \in BucketKeys : kvBucket[k].kind = "list" => Len(kvBucket[k].members) > 0
    /\ \A u \in Users, k \in BucketKeys :
         LET after == removeUserFromBucket(kvBucket, u, k)
             others == SelectSeq(kvBucket[k].members, LAMBDA id : id # u)
         IN /\ \A j \in BucketKeys \ {k} : after[j] = kvBucket[j]
            /\ after[k].members = others
            /\ after[k].kind = (IF kvBucket[k].kind = "list" /\ others = <<>>
                                THEN "absent" ELSE kvBucket[k].kind)
            /\ u \notin Members(k) => after = kvBucket

\* A save has taken its user out of a bucket another user stays in.
C31_Witness ==
    /\ last.op = "save"
    /\ last.prev.kind = "rec"
    /\ \E i \in 1..Len(last.prev.utcTimes) :
         LET k == last.prev.utcTimes[i]
         IN /\ last.user \notin Members(k)
            /\ Members(k) = Users \ {last.user}

\* The UTC instants at which the wall clock of the zone shows the local date
\* and time: none in a skipped gap, two in a repeated overlap.
Preimages(tz, date, time) ==
    {t \in ((date - 1) * DayLen)..((date + 2) * DayLen) :
        LocalParts(tz, t) = [date |-> date, time |-> time]}

\* C32: in a zone whose offset changes once, for a local date and time that
\* the wall clock shows at exactly one instant, toUtcDateTimeParts returns that
\* instant, also when the offset at the first estimate is not the offset at the
\* result.
C32_ToUtcAcrossTransition ==
    (/\ Returned("toUtcDateTimeParts")
     /\ calc.args.timezone \in DstZones
     /\ Cardinality(Preimages(calc.args.timezone, calc.args.date, calc.args.time)) = 1)
      => DateUTC(calc.result.date, calc.result.time)
           \in Preimages(calc.args.timezone, calc.args.date, calc.args.time)

\* The offset at the first estimate differs from the offset at the result.
C32_Witness ==
    /\ Returned("toUtcDateTimeParts")
    /\ calc.args.timezone \in DstZones
    /\ Preimages(calc.args.timezone, calc.args.date, calc.args.time)
         = {DateUTC(calc.result.date, calc.result.time)}
    /\ ZoneRule(calc.args.timezone, DateUTC(calc.args.date, calc.args.time))
         # ZoneRule(calc.args.timezone, DateUTC(calc.result.date, calc.result.time))

\* The 32 bytes of the raw form that hold an INTEGER field: its low-order 32
\* bytes when it is longer, zeros in front when it is shorter.
FixedWidth(x) ==
    IF Len(x) > 32 THEN SubSeq(x, Len(x) - 31, Len(x))
    ELSE [i \in 1..(32 - Len(x)) |-> 0] \o x

\* C33: signature normalisation always yields exactly 64 bytes: a raw 64-byte
\* signature is returned unchanged, and of a DER SEQUENCE{INTEGER r, INTEGER s}
\* each field is brought to exactly 32 bytes, r in bytes 0..31 and s in bytes
\* 32..63; a DER signature is never returned as DER.
C33_SignatureNormalised ==
    Returned("derToRaw") =>
        /\ Len(calc.result.raw) = 64
        /\ calc.args.kind = "raw" => calc.result.raw = calc.args.bytes
        /\ calc.args.kind = "der" =>
               /\ calc.result.raw = FixedWidth(calc.args.r) \o FixedWidth(calc.args.s)
               /\ calc.result.raw # calc.args.bytes

\* The same for the DER signatures that are not 64 bytes long.
C33_NormalisedUnlessSixtyFour ==
    (Returned("derToRaw") /\ Len(calc.args.bytes) # 64) =>
        /\ Len(calc.result.raw) = 64
        /\ calc.args.kind = "der" =>
               calc.result.raw = FixedWidth(calc.args.r) \o FixedWidth(calc.args.s)

\* A DER signature of 64 bytes has been normalised.
C33_SixtyFourByteDer ==
    /\ Returned("derToRaw")
    /\ calc.args.kind = "der"
    /\ Len(calc.args.bytes) = 64
    /\ calc.result.raw = calc.args.bytes

\* What a rebuild decides of a record: its settings, its date and its times.
Rebuilt(rec) == <<Carried(rec), rec.date, rec.times, rec.utcTimes>>

\* C34: a rebuild is never lost to an overlapping Dispatch: when a save or a
\* Refresh rebuild has written a new Schedule Record between a Dispatch run's
\* read of the old record and that run's sentUtc write, the record stored after
\* the write is the rebuilt one (its settings, date and utcTimes), not the old
\* record written back.
C34_RebuildNotLost ==
    [][(/\ dpc = "write"
        /\ last'.op = "write"
        /\ kvSchedule[Head(dQueue)].kind = "rec"
        /\ kvSchedule[Head(dQueue)] # dSched)
          => Rebuilt(kvSchedule'[Head(dQueue)]) = Rebuilt(kvSchedule[Head(dQueue)])]_vars

\* A sentUtc write has put back the record the run read over a rebuilt one.
C34_OldRecordWrittenBack ==
    /\ last.op = "write"
    /\ last.prev.kind = "rec"
    /\ Rebuilt(kvSchedule[last.user]) # Rebuilt(last.prev)

\* The calls of addUserToBucket and removeUserFromBucket in flight.
Flight == calc.flight

\* C35: bucket membership is at least once under concurrency: when two
\* operations for different users add themselves to the same minute bucket with
\* their read and write steps interleaved, both users are members of the bucket
\* once both operations have finished.
C35_BothMembersAfterAdds ==
    \A u, v \in Users :
        (/\ u # v
         /\ Flight[u].pc = "done" /\ Flight[u].fn = "add"
         /\ Flight[v].pc = "done" /\ Flight[v].fn = "add"
         /\ Flight[u].key = Flight[v].key)
          => {u, v} \subseteq Members(Flight[u].key)

\* A call that stores while the bucket still holds what its get returned does
\* what the function does in one piece.
C35_UndisturbedCallIsWhole ==
    [][\A u \in Users :
         (/\ Flight[u].pc = "put"
          /\ calc'.flight[u].pc = "done"
          /\ kvBucket[Flight[u].key] = Flight[u].seen)
           => kvBucket' = IF Flight[u].fn = "add"
                          THEN addUserToBucket(kvBucket, u, Flight[u].key)
                          ELSE removeUserFromBucket(kvBucket, u, Flight[u].key)]_vars

\* Both adds have finished and the bucket holds only the user that stored last.
C35_MemberLost ==
    /\ Flight["u1"].pc = "done" /\ Flight["u1"].fn = "add"
    /\ Flight["u2"].pc = "done" /\ Flight["u2"].fn = "add"
    /\ Flight["u1"].key = Flight["u2"].key
    /\ Flight["u1"].seen = NoBucket /\ Flight["u2"].seen = NoBucket
    /\ Members(Flight["u1"].key) = {"u2"}

\* userId is a member of the bucket.
MemberOf(bucket, userId) == bucket.kind = "list" /\ Includes(bucket.members, userId)

\* The step is a save for userId that did not succeed: answered 400 by the
\* validation, or 500 because the handler threw.
SaveFailed(userId) ==
    /\ last'.op = "save"
    /\ last'.user = userId
    /\ last'.outcome \in {"rejected", "threw"}

\* The step leaves what is stored for userId as it was.
StoredAsBefore(userId) ==
    /\ kvSettings'[userId] = kvSettings[userId]
    /\ kvSchedule'[userId] = kvSchedule[userId]
    /\ \A k \in BucketKeys : MemberOf(kvBucket'[k], userId) = MemberOf(kvBucket[k], userId)

\* C36: a settings save that does not succeed (remindersPerDay outside 1..10,
\* missing start or end time or timezone, or an invalid window) leaves the stored
\* Settings, the user's Schedule Record and the user's bucket memberships exactly
\* as they were before the request.
C36_FailedSaveChangesNothing ==
    [][\A u \in Users : SaveFailed(u) => StoredAsBefore(u)]_vars

\* A save that threw has stored its settings and taken the user out of the
\* buckets of the record that is still stored.
C36_FailedSaveStored ==
    /\ last.op = "save"
    /\ last.outcome = "threw"
    /\ last.prev.kind = "rec"
    /\ kvSchedule[last.user] = last.prev
    /\ kvSettings[last.user].kind = "set"
    /\ Carried(kvSettings[last.user]) # Carried(last.prev)
    /\ \A i \in 1..Len(last.prev.utcTimes) :
          ~MemberOf(kvBucket[last.prev.utcTimes[i]], last.user)

\* The record is current at instant t: its date is today in its timezone.
Current(rec, t) ==
    /\ rec.kind = "rec"
    /\ rec.timezone # ""
    /\ rec.date = getDateInTimezone(rec.timezone, t)

\* The step leaves userId's record and bucket memberships as they were.
RecordAsBefore(userId) ==
    /\ kvSchedule'[userId] = kvSchedule[userId]
    /\ \A k \in BucketKeys : MemberOf(kvBucket'[k], userId) = MemberOf(kvBucket[k], userId)

\* C37: Refresh leaves current records alone: for a record whose date equals
\* today in its timezone, no iteration of a Refresh run changes the record
\* (times, utcTimes and sentUtc are kept) or any bucket membership of its user.
C37_CurrentRecordUntouched ==
    [][\A u \in Users :
         (/\ rpc = "keys"
          /\ last'.op = "refresh"
          /\ Current(kvSchedule[u], now))
           => RecordAsBefore(u)]_vars

\* The same for the iteration on the record's own key.
C37_OwnKeyIterationLeavesCurrent ==
    [][\A u \in Users :
         (RefreshVisits(u) /\ Current(kvSchedule[u], now))
           => /\ RecordAsBefore(u)
              /\ last'.outcome = "continue"]_vars

\* The iteration on a legacy key has replaced its user's current record.
C37_CurrentRecordReplaced ==
    /\ last.op = "refresh"
    /\ last.outcome = "migrated"
    /\ Current(last.prev, now)
    /\ kvSchedule[last.user] # last.prev

\* The iteration on a current record's own key went on to the next key.
C37_OwnKeyVisited ==
    /\ last.op = "refresh"
    /\ last.outcome = "continue"
    /\ Current(last.prev, now)
    /\ kvSchedule[last.user] = last.prev

\* The step is one of a Dispatch run: its start, or a check, a push request
\* or a sentUtc write for a member of the bucket.
DispatchStep ==
    \/ dpc = "idle" /\ dpc' # "idle"
    \/ dpc # "idle" /\ last'.op \in {"check", "send", "write"}

\* The step appends the run's key to the sentUtc of userId's stored record, for
\* a push the run has just sent to userId, and changes nothing else of it.
AppendsSent(userId) ==
    /\ dpc = "write"
    /\ Head(dQueue) = userId
    /\ delivered[userId][dKey] >= 1
    /\ kvSchedule[userId].kind = "rec"
    /\ kvSchedule'[userId] = MarkSent(kvSchedule[userId], dKey)

\* C38: a Dispatch run changes nothing except sentUtc: it never creates, alters
\* or deletes a bucket, Settings or a subscription, and its only change to a
\* Schedule Record is appending the current UTC key to the sentUtc of a user to
\* whom it has just sent a push.
C38_DispatchChangesOnlySentUtc ==
    [][DispatchStep =>
         /\ kvBucket' = kvBucket
         /\ kvSettings' = kvSettings
         /\ kvSub' = kvSub
         /\ \A u \in Users : kvSchedule'[u] = kvSchedule[u] \/ AppendsSent(u)]_vars

\* The same for the steps of a run whose member's record has not been written
\* since the run read it.
C38_OnlySentUtcWhenUndisturbed ==
    [][(DispatchStep /\ (dpc = "write" => kvSchedule[Head(dQueue)] = dSched)) =>
         /\ kvBucket' = kvBucket
         /\ kvSettings' = kvSettings
         /\ kvSub' = kvSub
         /\ \A u \in Users : kvSchedule'[u] = kvSchedule[u] \/ AppendsSent(u)]_vars

\* A sentUtc write has stored a record for a user whose record a save had
\* deleted, or has changed more than sentUtc of the stored record.
C38_WriteChangedMore ==
    /\ last.op = "write"
    /\ \/ last.prev.kind = "absent"
       \/ /\ last.prev.kind = "rec"
          /\ kvSchedule[last.user] # MarkSent(last.prev, last.key)

\* A sentUtc write has appended the run's key to the stored record.
C38_WriteAppended ==
    /\ last.op = "write"
    /\ last.prev.kind = "rec"
    /\ kvSchedule[last.user] = MarkSent(last.prev, last.key)
    /\ delivered[last.user][last.key] >= 1

====
